---- MODULE Spec2Model ----
(***************************************************************************)
(* CheckMatic: the input-validation and request-orchestration core of the  *)
(* analyze endpoint (app/api/analyze/route.js) and of the detection logic  *)
(* (app/api/detection/detection-logic.js).                                 *)
(*                                                                         *)
(* The specifications of this module:                                 *)
(*   SpecFetch  safeFetchWithRetry alone, fed arbitrary call outcomes;     *)
(*   SpecURL    validateURL applied to a bounded family of input strings;  *)
(*   SpecReq    one POST to the analyze endpoint, from the request body to *)
(*              the response, with every external call it makes;           *)
(*   SpecDetect one POST to the detection endpoint (detectContent invoked   *)
(*              with the text and labelGroup of the body);                  *)
(*   SpecSynth  the parsing of the LLM reply by synthesizeWithLLM;          *)
(*   SpecValid  sanitizeText and validatePhoto applied to bounded inputs;   *)
(*   SpecPair   two concurrent POSTs to the analyze endpoint;               *)
(*   SpecLimit  the contact endpoint with its in-memory rate limiter;       *)
(*   SpecRedis  the contact endpoint with its Redis rate limiter.           *)
(* Strings are TLA+ strings, read character by character with SubSeq.       *)
(***************************************************************************)
EXTENDS Integers, Sequences, FiniteSets, TLC

VARIABLES
    fc,       \* SpecFetch: the state of one safeFetchWithRetry invocation
    outs,     \* SpecFetch: the outcomes of the calls issued so far (history)
    uin,      \* SpecURL: the argument handed to validateURL
    ures,     \* SpecURL: what validateURL returned or threw
    lib,      \* SpecURL: the behaviour of the ipaddr.js build in use
    rq,       \* SpecReq, SpecDetect: one POST and all it has started
    reply,    \* SpecSynth: the text of the reply of the LLM endpoint
    syn,      \* SpecSynth: what synthesizeWithLLM returned for it
    arg,      \* SpecValid: the argument handed to sanitizeText or validatePhoto
    ret,      \* SpecValid: what the calls made with it returned or threw
    rqs,      \* SpecPair: two POSTs to the analyze endpoint in one process
    mem,      \* SpecPair: the bindings of `attempt`, one value per binding
    lim,      \* SpecLimit: the contact route with the in-memory rate limiter
    rd        \* SpecRedis: the contact route with the Redis rate limiter

vars == <<fc, outs, uin, ures, lib, rq, reply, syn, arg, ret, rqs, mem, lim, rd>>

(***************************************************************************)
(* Bounds of the model.                                                    *)
(***************************************************************************)
MaxRetries == 3
MaxTicks == 3
MaxContacts == 7
PadSlack == 1      \* URL lengths tried around the limit: 2048 - PadSlack .. 2048 + PadSlack

(***************************************************************************)
(* Generic helpers.                                                        *)
(***************************************************************************)
RECURSIVE Pow2(_)
Pow2(n) == IF n = 0 THEN 1 ELSE 2 * Pow2(n - 1)

RECURSIVE SumSeq(_)
SumSeq(s) == IF s = <<>> THEN 0 ELSE Head(s) + SumSeq(Tail(s))

(***************************************************************************)
(* Strings, as JavaScript's String methods read them.                      *)
(***************************************************************************)
Ch(s, i) == SubSeq(s, i, i)

MinOf(S) == CHOOSE m \in S : \A x \in S : m <= x
MaxOf(S) == CHOOSE m \in S : \A x \in S : m >= x

\* s.startsWith(p), s.includes(p)
StartsWith(s, p) == Len(s) >= Len(p) /\ SubSeq(s, 1, Len(p)) = p
EndsWith(s, p) == Len(s) >= Len(p) /\ SubSeq(s, Len(s) - Len(p) + 1, Len(s)) = p
Includes(s, p) ==
    \E i \in 1..(Len(s) - Len(p) + 1) : SubSeq(s, i, i + Len(p) - 1) = p

\* s.slice(0, n)
Prefix(s, n) == SubSeq(s, 1, IF Len(s) < n THEN Len(s) ELSE n)

\* the positions at which character c occurs in s
Positions(s, c) == {i \in 1..Len(s) : Ch(s, i) = c}

\* s.trim()
WhiteSpace == {" ", "\t", "\n", "\r"}
RECURSIVE TrimStart(_, _)
TrimStart(s, i) ==
    IF i <= Len(s) /\ Ch(s, i) \in WhiteSpace THEN TrimStart(s, i + 1) ELSE i
RECURSIVE TrimEnd(_, _)
TrimEnd(s, j) ==
    IF j >= 1 /\ Ch(s, j) \in WhiteSpace THEN TrimEnd(s, j - 1) ELSE j
Trim(s) ==
    LET i == TrimStart(s, 1)
    IN  IF i > Len(s) THEN "" ELSE SubSeq(s, i, TrimEnd(s, Len(s)))

\* c.toLowerCase(), s.toLowerCase()
UpperCase == "ABCDEFGHIJKLMNOPQRSTUVWXYZ"
LowerCase == "abcdefghijklmnopqrstuvwxyz"
UpperSet == {Ch(UpperCase, i) : i \in 1..26}
LowerFn == [u \in UpperSet |-> Ch(LowerCase, CHOOSE i \in 1..26 : Ch(UpperCase, i) = u)]
Lower(c) == IF c \in UpperSet THEN LowerFn[c] ELSE c
RECURSIVE ToLowerCase(_)
ToLowerCase(s) == IF s = "" THEN "" ELSE Lower(Head(s)) \o ToLowerCase(Tail(s))

\* /p/i.test(s) for a literal pattern p written in lower case
IncludesCI(s, p) ==
    \E i \in 1..(Len(s) - Len(p) + 1) :
        \A k \in 1..Len(p) : Lower(Ch(s, i + k - 1)) = Ch(p, k)

\* s.split(sep) for a one-character separator
RECURSIVE Split(_, _)
Split(s, sep) ==
    LET at == Positions(s, sep)
    IN  IF at = {} THEN <<s>>
        ELSE <<SubSeq(s, 1, MinOf(at) - 1)>> \o Split(SubSeq(s, MinOf(at) + 1, Len(s)), sep)

\* digits and numbers
Digits == "0123456789abcdef"
DigitValue(c) == (CHOOSE i \in 1..16 : Ch(Digits, i) = Lower(c)) - 1
IsDigit(c, radix) == \E i \in 1..radix : Ch(Digits, i) = Lower(c)
AllDigits(s, radix) == \A i \in 1..Len(s) : IsDigit(Ch(s, i), radix)
RECURSIVE ParseInt(_, _)
ParseInt(s, radix) ==
    IF s = "" THEN 0
    ELSE ParseInt(SubSeq(s, 1, Len(s) - 1), radix) * radix + DigitValue(Ch(s, Len(s)))
RECURSIVE ToHex(_)
ToHex(n) == IF n < 16 THEN Ch(Digits, n + 1) ELSE ToHex(n \div 16) \o Ch(Digits, (n % 16) + 1)

\* c.repeat(n)
RECURSIVE Repeat(_, _)
Repeat(c, n) ==
    IF n <= 0 THEN ""
    ELSE LET h == Repeat(c, n \div 2)
         IN  IF n % 2 = 0 THEN h \o h ELSE h \o h \o c


(***************************************************************************)
(* new URL(s) for a string that starts with http:// or https://, as the    *)
(* WHATWG URL parser reads it: authority, userinfo, host, port; the host   *)
(* is lower-cased, an IPv4 host is rewritten as a dotted quad, an IPv6     *)
(* host keeps its brackets. Percent-escapes, non-ASCII hosts and IPv6 with *)
(* an embedded IPv4 tail are outside the alphabet of the model.            *)
(***************************************************************************)
ParseFailure == [ok |-> FALSE, protocol |-> "", hostname |-> "", kind |-> "", addr |-> <<>>]

\* the IPv4 number parser: decimal, 0x hexadecimal, 0 octal; -1 is failure
IPv4Number(part) ==
    IF part = "" THEN -1
    ELSE IF Len(part) >= 2 /\ ToLowerCase(SubSeq(part, 1, 2)) = "0x"
    THEN LET d == SubSeq(part, 3, Len(part))
         IN  IF AllDigits(d, 16) THEN ParseInt(d, 16) ELSE -1
    ELSE IF Len(part) >= 2 /\ Ch(part, 1) = "0"
    THEN LET d == SubSeq(part, 2, Len(part))
         IN  IF AllDigits(d, 8) THEN ParseInt(d, 8) ELSE -1
    ELSE IF AllDigits(part, 10) THEN ParseInt(part, 10) ELSE -1

\* the parts of a host between dots, a single trailing empty part dropped
HostParts(host) ==
    LET parts == Split(host, ".")
    IN  IF Len(parts) > 1 /\ parts[Len(parts)] = ""
        THEN SubSeq(parts, 1, Len(parts) - 1) ELSE parts

\* the "ends in a number" checker
EndsInNumber(host) ==
    LET parts == HostParts(host)
        last == parts[Len(parts)]
    IN  /\ last # ""
        /\ (AllDigits(last, 10) \/ IPv4Number(last) >= 0)

RECURSIVE Pow256(_)
Pow256(n) == IF n = 0 THEN 1 ELSE 256 * Pow256(n - 1)

\* the IPv4 parser: the four bytes of the address, or <<>> on failure (a host
\* that is one number is below 256^4 whenever it fits the integers of the model)
IPv4Parse(host) ==
    LET parts == HostParts(host)
        n == Len(parts)
        nums == [i \in 1..n |-> IPv4Number(parts[i])]
    IN  IF n > 4 \/ (\E i \in 1..n : nums[i] < 0) THEN <<>>
        ELSE IF \E i \in 1..(n - 1) : nums[i] > 255 THEN <<>>
        ELSE IF n > 1 /\ nums[n] >= Pow256(5 - n) THEN <<>>
        ELSE [i \in 1..4 |-> IF i < n THEN nums[i]
                                ELSE (nums[n] \div Pow256(4 - i)) % 256]

IPv4Serialize(b) ==
    ToString(b[1]) \o "." \o ToString(b[2]) \o "." \o ToString(b[3]) \o "." \o ToString(b[4])

\* the IPv6 parser on the text between the brackets: eight 16-bit pieces, or
\* <<>> on failure
HexPiece(g) == Len(g) \in 1..4 /\ AllDigits(g, 16)
IPv6Pieces(t) == IF t = "" THEN <<>> ELSE Split(t, ":")
IPv6Parse(t) ==
    LET gaps == {i \in 1..(Len(t) - 1) : SubSeq(t, i, i + 1) = "::"}
    IN  IF Cardinality(gaps) > 1 THEN <<>>
        ELSE IF gaps = {}
        THEN LET g == IPv6Pieces(t)
             IN  IF Len(g) = 8 /\ (\A i \in 1..8 : HexPiece(g[i]))
                 THEN [i \in 1..8 |-> ParseInt(g[i], 16)] ELSE <<>>
        ELSE LET k == MinOf(gaps)
                 l == IPv6Pieces(SubSeq(t, 1, k - 1))
                 r == IPv6Pieces(SubSeq(t, k + 2, Len(t)))
             IN  IF /\ Len(l) + Len(r) <= 7
                    /\ \A i \in 1..Len(l) : HexPiece(l[i])
                    /\ \A i \in 1..Len(r) : HexPiece(r[i])
                 THEN [i \in 1..8 |->
                         IF i <= Len(l) THEN ParseInt(l[i], 16)
                         ELSE IF i > 8 - Len(r) THEN ParseInt(r[i - (8 - Len(r))], 16)
                         ELSE 0]
                 ELSE <<>>

\* the IPv6 serializer: lower-case hexadecimal, the first longest run of two or
\* more zero pieces written as ::
ZeroRun(g, i) ==
    IF g[i] # 0 THEN 0
    ELSE MaxOf({n \in 1..(9 - i) : \A j \in i..(i + n - 1) : g[j] = 0})
IPv6Compress(g) ==
    LET best == MaxOf({ZeroRun(g, i) : i \in 1..8})
    IN  IF best < 2 THEN 0 ELSE MinOf({i \in 1..8 : ZeroRun(g, i) = best})
RECURSIVE IPv6From(_, _, _)
IPv6From(g, i, c) ==
    IF i > 8 THEN ""
    ELSE IF c # 0 /\ i = c
    THEN (IF i = 1 THEN "::" ELSE ":") \o IPv6From(g, i + ZeroRun(g, i), c)
    ELSE ToHex(g[i]) \o (IF i < 8 THEN ":" ELSE "") \o IPv6From(g, i + 1, c)
IPv6Serialize(g) == IPv6From(g, 1, IPv6Compress(g))

\* the host parser for a special scheme
ForbiddenHostChars == {" ", "#", "/", ":", "<", ">", "?", "@", "[", "\\", "]", "^", "|", "%"}
HostParse(raw) ==
    IF raw = "" THEN ParseFailure
    ELSE IF Ch(raw, 1) = "["
    THEN LET g == IF EndsWith(raw, "]") THEN IPv6Parse(SubSeq(raw, 2, Len(raw) - 1))
                  ELSE <<>>
         IN  IF g = <<>> THEN ParseFailure
             ELSE [ok |-> TRUE, protocol |-> "", kind |-> "ipv6", addr |-> g,
                   hostname |-> "[" \o IPv6Serialize(g) \o "]"]
    ELSE LET h == ToLowerCase(raw)
         IN  IF \E i \in 1..Len(h) : Ch(h, i) \in ForbiddenHostChars THEN ParseFailure
             ELSE IF EndsInNumber(h)
             THEN LET b == IPv4Parse(h)
                  IN  IF b = <<>> THEN ParseFailure
                      ELSE [ok |-> TRUE, protocol |-> "", kind |-> "ipv4", addr |-> b,
                            hostname |-> IPv4Serialize(b)]
             ELSE [ok |-> TRUE, protocol |-> "", kind |-> "domain", addr |-> <<>>,
                   hostname |-> h]

\* the part of the URL after "scheme:" and any run of slashes, up to the path
AfterSlashes(s, from) ==
    LET stop == {i \in from..Len(s) : Ch(s, i) \notin {"/", "\\"}}
    IN  IF stop = {} THEN "" ELSE SubSeq(s, MinOf(stop), Len(s))
Authority(rest) ==
    LET stop == {i \in 1..Len(rest) : Ch(rest, i) \in {"/", "\\", "?", "#"}}
    IN  IF stop = {} THEN rest ELSE SubSeq(rest, 1, MinOf(stop) - 1)
\* host and port: what follows the last @ of the authority
HostPort(auth) ==
    LET at == Positions(auth, "@")
    IN  IF at = {} THEN auth ELSE SubSeq(auth, MaxOf(at) + 1, Len(auth))
\* the host ends at the first colon outside brackets
PortColon(hp) ==
    LET c == {i \in 1..Len(hp) : /\ Ch(hp, i) = ":"
                                 /\ ~(\E j \in 1..(i - 1) :
                                        /\ Ch(hp, j) = "["
                                        /\ \A k \in j..(i - 1) : Ch(hp, k) # "]")}
    IN  IF c = {} THEN 0 ELSE MinOf(c)
PortOk(p) == AllDigits(p, 10) /\ Len(p) <= 5 /\ ParseInt(p, 10) <= 65535

ParseURL(s) ==
    LET protocol == IF StartsWith(s, "https:") THEN "https:" ELSE "http:"
        hp == HostPort(Authority(AfterSlashes(s, Len(protocol) + 1)))
        colon == PortColon(hp)
        host == IF colon = 0 THEN hp ELSE SubSeq(hp, 1, colon - 1)
        port == IF colon = 0 THEN "" ELSE SubSeq(hp, colon + 1, Len(hp))
        parsed == HostParse(host)
    IN  IF parsed.ok /\ PortOk(port)
        THEN [parsed EXCEPT !.protocol = protocol]
        ELSE ParseFailure

(***************************************************************************)
(* ipaddr.js, on the hostname the URL parser produced. The sources pin no  *)
(* version of the library, and the range predicates validateURL calls on   *)
(* the parsed address (isPrivate, isLoopback, isLinkLocal, isBroadcast)    *)
(* are not part of every release of it, nor is the reading of a bracketed  *)
(* IPv6 literal: `lib` says what the installed build does. A build without *)
(* the predicates throws a TypeError at the first call.                    *)
(***************************************************************************)
LibChoices == [predicates : BOOLEAN, brackets : BOOLEAN]

\* ipaddr.parse(hostname): <<>> when ipaddr.isValid(hostname) is false
IpaddrDottedQuad(h) ==
    LET parts == Split(h, ".")
    IN  /\ Len(parts) = 4
        /\ \A i \in 1..4 : /\ parts[i] # "" /\ Len(parts[i]) <= 3
                           /\ AllDigits(parts[i], 10)
                           /\ ParseInt(parts[i], 10) <= 255
IpaddrParse(h, L) ==
    IF Positions(h, ":") = {}
    THEN IF IpaddrDottedQuad(h)
         THEN [kind |-> "ipv4",
               addr |-> [i \in 1..4 |-> ParseInt(Split(h, ".")[i], 10)]]
         ELSE <<>>
    ELSE LET t == IF StartsWith(h, "[") /\ EndsWith(h, "]") /\ L.brackets
                  THEN SubSeq(h, 2, Len(h) - 1) ELSE h
             g == IF Positions(t, "[") = {} THEN IPv6Parse(t) ELSE <<>>
         IN  IF g = <<>> THEN <<>> ELSE [kind |-> "ipv6", addr |-> g]
IpaddrIsValid(h, L) == IpaddrParse(h, L) # <<>>

\* addr.isPrivate() || addr.isLoopback() || addr.isLinkLocal() || addr.isBroadcast()
\* in a build that has these predicates, by the library's range table
IsPrivate(a) ==
    IF a.kind = "ipv4"
    THEN \/ a.addr[1] = 10
         \/ a.addr[1] = 172 /\ a.addr[2] \in 16..31
         \/ a.addr[1] = 192 /\ a.addr[2] = 168
    ELSE a.addr[1] \div 512 = 126
IsLoopback(a) ==
    IF a.kind = "ipv4" THEN a.addr[1] = 127
    ELSE a.addr = <<0, 0, 0, 0, 0, 0, 0, 1>>
IsLinkLocal(a) ==
    IF a.kind = "ipv4" THEN a.addr[1] = 169 /\ a.addr[2] = 254
    ELSE a.addr[1] \div 64 = 1018
IsBroadcast(a) ==
    a.kind = "ipv4" /\ a.addr = <<255, 255, 255, 255>>

(***************************************************************************)
(* Input Validator: validateURL(url).                                      *)
(***************************************************************************)
\* JavaScript values handed to the validators: t is the typeof, s the string
Str(s) == [t |-> "string", s |-> s]
NonStrings == {[t |-> "undefined", s |-> ""], [t |-> "null", s |-> ""],
               [t |-> "number", s |-> "123"], [t |-> "object", s |-> ""]}
Falsy(v) == v.t \in {"undefined", "null"} \/ (v.t = "string" /\ v.s = "")

Accept(value) == [ok |-> TRUE, value |-> value, err |-> "", msg |-> ""]
Reject(err, msg) == [ok |-> FALSE, value |-> "", err |-> err, msg |-> msg]

MaxURLLength == 2048

\* trimmedUrl.startsWith('http://') || trimmedUrl.startsWith('https://')
HasSchemePrefix(t) == StartsWith(t, "http://") \/ StartsWith(t, "https://")

\* (mutant) the URL is returned as typed, the prefix only used for the checks
WithScheme_NotKept(t) == t

\* the string every later check reads and that is returned on success
WithScheme(t) == IF HasSchemePrefix(t) THEN t ELSE "https://" \o t

\* /(?:\/|^)\.\.(?:\/|$)/
HasTraversal(u) ==
    \E i \in 1..(Len(u) - 1) :
        /\ SubSeq(u, i, i + 1) = ".."
        /\ (i = 1 \/ Ch(u, i - 1) = "/")
        /\ (i + 1 = Len(u) \/ Ch(u, i + 2) = "/")
SuspiciousURLPatterns == {"javascript:", "data:", "file:", "ftp:", "<script"}
HasSuspiciousPattern(u) ==
    (\E p \in SuspiciousURLPatterns : IncludesCI(u, p)) \/ HasTraversal(u)

suspiciousHostnames ==
    {"localhost", "0.0.0.0", "::1", "ip6-localhost", "ip6-loopback", "broadcasthost"}

PrivateNetworkAccess ==
    Reject("PrivateNetworkAccess", "Access to private/local URLs is not allowed")

\* the checks made on the parsed address when ipaddr.isValid(hostname)
CheckAddress(u, a, L) ==
    IF ~L.predicates
    THEN Reject("TypeError", "addr.isPrivate is not a function")
    ELSE IF IsPrivate(a) \/ IsLoopback(a) \/ IsLinkLocal(a) \/ IsBroadcast(a)
    THEN PrivateNetworkAccess
    ELSE IF a.kind = "ipv6"
    THEN LET ipv6String == IPv6Serialize(a.addr)
         IN  IF \/ StartsWith(ipv6String, "ff")
                \/ StartsWith(ipv6String, "fe80:")
                \/ StartsWith(ipv6String, "fc")
                \/ StartsWith(ipv6String, "fd")
             THEN PrivateNetworkAccess
             ELSE Accept(u)
    ELSE Accept(u)

\* (mutant) the length is that of the trimmed input, before the prefix
validateURL_LengthOfInput(url, L) ==
    IF Falsy(url) \/ url.t # "string"
    THEN Reject("MissingInput", "URL is required and must be a string")
    ELSE IF Trim(url.s) = ""
    THEN Reject("MissingInput", "URL cannot be empty")
    ELSE
    LET trimmedUrl == WithScheme(Trim(url.s))
        parsedUrl == ParseURL(trimmedUrl)
        hostname == parsedUrl.hostname
    IN  IF ~parsedUrl.ok
        THEN Reject("InvalidFormat", "Invalid URL format")
        ELSE IF parsedUrl.protocol \notin {"http:", "https:"}
        THEN Reject("DisallowedScheme", "Only HTTP and HTTPS URLs are allowed")
        ELSE IF Len(Trim(url.s)) > MaxURLLength
        THEN Reject("TooLong", "URL too long (maximum 2048 characters allowed)")
        ELSE IF HasSuspiciousPattern(trimmedUrl)
        THEN Reject("SuspiciousPattern", "URL contains potentially malicious content")
        ELSE IF ToLowerCase(hostname) \in suspiciousHostnames
        THEN PrivateNetworkAccess
        ELSE IF IpaddrIsValid(hostname, L)
        THEN CheckAddress(trimmedUrl, IpaddrParse(hostname, L), L)
        ELSE Accept(trimmedUrl)

validateURL(url, L) ==
    IF Falsy(url) \/ url.t # "string"
    THEN Reject("MissingInput", "URL is required and must be a string")
    ELSE IF Trim(url.s) = ""
    THEN Reject("MissingInput", "URL cannot be empty")
    ELSE
    LET trimmedUrl == WithScheme(Trim(url.s))
        parsedUrl == ParseURL(trimmedUrl)
        hostname == parsedUrl.hostname
    IN  IF ~parsedUrl.ok
        THEN Reject("InvalidFormat", "Invalid URL format")
        ELSE IF parsedUrl.protocol \notin {"http:", "https:"}
        THEN Reject("DisallowedScheme", "Only HTTP and HTTPS URLs are allowed")
        ELSE IF Len(trimmedUrl) > MaxURLLength
        THEN Reject("TooLong", "URL too long (maximum 2048 characters allowed)")
        ELSE IF HasSuspiciousPattern(trimmedUrl)
        THEN Reject("SuspiciousPattern", "URL contains potentially malicious content")
        ELSE IF ToLowerCase(hostname) \in suspiciousHostnames
        THEN PrivateNetworkAccess
        ELSE IF IpaddrIsValid(hostname, L)
        THEN CheckAddress(trimmedUrl, IpaddrParse(hostname, L), L)
        ELSE Accept(trimmedUrl)

(***************************************************************************)
(* Input Validator: sanitizeText(text, skipInjectionCheck).                *)
(*                                                                         *)
(* DOMPurify.sanitize(text, {USE_PROFILES: {html: false}}) returns a       *)
(* string without "<" as it is; any other string is parsed as HTML and     *)
(* written back with every element removed: the text of the elements is    *)
(* kept (that of script and style elements is dropped) and "&", "<", ">"   *)
(* of the text are written as entities.                                    *)
(***************************************************************************)
Letters == {Ch(LowerCase, k) : k \in 1..26}
IsTagOpen(s, i) ==
    /\ Ch(s, i) = "<" /\ i < Len(s)
    /\ \/ Lower(Ch(s, i + 1)) \in Letters \cup {"!", "?"}
       \/ Ch(s, i + 1) = "/" /\ i + 1 < Len(s) /\ Lower(Ch(s, i + 2)) \in Letters
\* the index after the construct that starts at i: the tag, or for <script and
\* <style the whole element; Len(s) + 1 when it is not closed
TagEnd(s, i) ==
    LET raw == {t \in {"<script", "<style"} : ToLowerCase(Prefix(SubSeq(s, i, Len(s)), Len(t))) = t}
        from == IF raw = {} THEN i
                ELSE LET t == "</" \o SubSeq(CHOOSE x \in raw : TRUE, 2, Len(CHOOSE x \in raw : TRUE))
                         at == {j \in i..(Len(s) - Len(t) + 1) :
                                  ToLowerCase(SubSeq(s, j, j + Len(t) - 1)) = t}
                     IN  IF at = {} THEN Len(s) + 1 ELSE MinOf(at)
        close == {j \in from..Len(s) : Ch(s, j) = ">"}
    IN  IF close = {} THEN Len(s) + 1 ELSE MinOf(close) + 1
RECURSIVE StripMarkup(_, _)
StripMarkup(s, i) ==
    IF i > Len(s) THEN ""
    ELSE IF IsTagOpen(s, i) THEN StripMarkup(s, TagEnd(s, i))
    ELSE IF Ch(s, i) = "<" THEN "&lt;" \o StripMarkup(s, i + 1)
    ELSE IF Ch(s, i) = ">" THEN "&gt;" \o StripMarkup(s, i + 1)
    ELSE IF Ch(s, i) = "&"
    THEN IF \E e \in {"&amp;", "&lt;", "&gt;"} : StartsWith(SubSeq(s, i, Len(s)), e)
         THEN "&" \o StripMarkup(s, i + 1)
         ELSE IF StartsWith(SubSeq(s, i, Len(s)), "&quot;")
         THEN "\"" \o StripMarkup(s, i + 6)
         ELSE "&amp;" \o StripMarkup(s, i + 1)
    ELSE Ch(s, i) \o StripMarkup(s, i + 1)
\* (mutant) the text content of the parsed document is returned, entities decoded
RECURSIVE DecodeAngles(_, _)
DecodeAngles(s, i) ==
    IF i > Len(s) THEN ""
    ELSE IF StartsWith(SubSeq(s, i, Len(s)), "&lt;") THEN "<" \o DecodeAngles(s, i + 4)
    ELSE IF StartsWith(SubSeq(s, i, Len(s)), "&gt;") THEN ">" \o DecodeAngles(s, i + 4)
    ELSE Ch(s, i) \o DecodeAngles(s, i + 1)
DOMPurifySanitize_TextContent(text) ==
    IF Positions(text, "<") = {} THEN text ELSE DecodeAngles(StripMarkup(text, 1), 1)
DOMPurifySanitize(text) ==
    IF Positions(text, "<") = {} THEN text ELSE StripMarkup(text, 1)

MaxTextLength == 50000

\* \bword\b with the i flag: word is in lower case
WordChars == Letters \cup {Ch(Digits, k) : k \in 1..10} \cup {"_"}
HasWord(s, w) ==
    \E i \in 1..(Len(s) - Len(w) + 1) :
        /\ \A k \in 1..Len(w) : Lower(Ch(s, i + k - 1)) = Ch(w, k)
        /\ (i = 1 \/ Lower(Ch(s, i - 1)) \notin WordChars)
        /\ (i + Len(w) > Len(s) \/ Lower(Ch(s, i + Len(w))) \notin WordChars)
\* (^|\s)proto: with the i flag
HasProtocol(s, w) ==
    \E i \in 1..(Len(s) - Len(w)) :
        /\ \A k \in 1..Len(w) : Lower(Ch(s, i + k - 1)) = Ch(w, k)
        /\ Ch(s, i + Len(w)) = ":"
        /\ (i = 1 \/ Ch(s, i - 1) \in WhiteSpace)
injectionPatterns(s) ==
    \/ \E w \in {"union", "select", "insert", "update", "delete", "drop", "exec",
                 "execute", "declare", "alter"} : HasWord(s, w)
    \/ \E w \in {"eval", "settimeout", "setinterval"} : HasWord(s, w)
    \/ \E w \in {"javascript", "data", "vbscript"} : HasProtocol(s, w)

\* (mutant) the text is returned untrimmed when the injection check is skipped
sanitizeText_UntrimmedWhenSkipped(text, skipInjectionCheck) ==
    IF text.t # "string" THEN Reject("NotString", "Input must be a string")
    ELSE
    LET sanitized == DOMPurifySanitize(text.s)
        trimmed == Trim(sanitized)
    IN  IF Len(trimmed) > MaxTextLength
        THEN Reject("TooLarge", "Text content too large (maximum 50KB allowed)")
        ELSE IF ~skipInjectionCheck /\ injectionPatterns(sanitized)
        THEN Reject("PotentialInjection", "Potentially malicious content detected")
        ELSE Accept(IF skipInjectionCheck THEN sanitized ELSE trimmed)

sanitizeText(text, skipInjectionCheck) ==
    IF text.t # "string" THEN Reject("NotString", "Input must be a string")
    ELSE
    LET sanitized == DOMPurifySanitize(text.s)
        trimmed == Trim(sanitized)
    IN  IF Len(trimmed) > MaxTextLength
        THEN Reject("TooLarge", "Text content too large (maximum 50KB allowed)")
        ELSE IF ~skipInjectionCheck /\ injectionPatterns(sanitized)
        THEN Reject("PotentialInjection", "Potentially malicious content detected")
        ELSE Accept(trimmed)

(***************************************************************************)
(* Input Validator: validatePhoto(photoData). A photo is a record of the   *)
(* fields the function reads; "" stands for a missing (falsy) field.       *)
(***************************************************************************)
Photo(data, name, size, type) ==
    [t |-> "object", data |-> data, name |-> name, size |-> size,
     sizeType |-> "number", type |-> type]
MaxPhotoSize == 10 * 1024 * 1024
MaxPhotoName == 255
MinBase64Length == 100
allowedTypes ==
    {"image/jpeg", "image/jpg", "image/png", "image/gif", "image/webp", "image/bmp"}
SuspiciousNameEndings ==
    {".exe", ".bat", ".cmd", ".scr", ".com", ".pif", ".php", ".asp", ".jsp", ".py"}
HasSuspiciousName(name) ==
    \/ Includes(name, "..")
    \/ IncludesCI(name, "<script")
    \/ IncludesCI(name, "javascript:")
    \/ \E e \in SuspiciousNameEndings :
          Len(name) >= Len(e) /\ ToLowerCase(SubSeq(name, Len(name) - Len(e) + 1, Len(name))) = e
\* data.split('base64,')[1]
Base64Data(data) ==
    LET at == {i \in 1..(Len(data) - 6) : SubSeq(data, i, i + 6) = "base64,"}
        rest == SubSeq(data, MinOf(at) + 7, Len(data))
        nxt == {i \in 1..(Len(rest) - 6) : SubSeq(rest, i, i + 6) = "base64,"}
    IN  IF nxt = {} THEN rest ELSE SubSeq(rest, 1, MinOf(nxt) - 1)

\* (mutant) the type is compared as written
validatePhoto_CaseSensitive(photoData) ==
    IF Falsy(photoData) \/ photoData.t # "object"
    THEN Reject("PhotoRequired", "Photo data is required")
    ELSE IF photoData.data = "" \/ photoData.name = "" \/ photoData.sizeType # "number"
            \/ photoData.type = ""
    THEN Reject("PhotoIncomplete", "Photo data is incomplete or invalid")
    ELSE IF photoData.size > MaxPhotoSize
    THEN Reject("PhotoTooLarge", "Photo size too large (maximum 10MB allowed)")
    ELSE IF photoData.size <= 0
    THEN Reject("PhotoSize", "Invalid photo size")
    ELSE IF photoData.type \notin allowedTypes
    THEN Reject("UnsupportedFileType",
                "Unsupported file type. Only JPEG, PNG, GIF, WebP, and BMP are allowed")
    ELSE IF HasSuspiciousName(photoData.name)
    THEN Reject("PhotoName", "Photo name contains potentially malicious content")
    ELSE IF Len(photoData.name) > MaxPhotoName
    THEN Reject("PhotoNameLength", "Photo name too long (maximum 255 characters allowed)")
    ELSE IF ~StartsWith(photoData.data, "data:image/") \/ ~Includes(photoData.data, "base64,")
    THEN Reject("PhotoFormat", "Invalid photo data format - must be base64 encoded image")
    ELSE IF Len(Base64Data(photoData.data)) < MinBase64Length
    THEN Reject("PhotoCorrupted", "Invalid or corrupted photo data")
    ELSE Accept(photoData)

validatePhoto(photoData) ==
    IF Falsy(photoData) \/ photoData.t # "object"
    THEN Reject("PhotoRequired", "Photo data is required")
    ELSE IF photoData.data = "" \/ photoData.name = "" \/ photoData.sizeType # "number"
            \/ photoData.type = ""
    THEN Reject("PhotoIncomplete", "Photo data is incomplete or invalid")
    ELSE IF photoData.size > MaxPhotoSize
    THEN Reject("PhotoTooLarge", "Photo size too large (maximum 10MB allowed)")
    ELSE IF photoData.size <= 0
    THEN Reject("PhotoSize", "Invalid photo size")
    ELSE IF ToLowerCase(photoData.type) \notin allowedTypes
    THEN Reject("UnsupportedFileType",
                "Unsupported file type. Only JPEG, PNG, GIF, WebP, and BMP are allowed")
    ELSE IF HasSuspiciousName(photoData.name)
    THEN Reject("PhotoName", "Photo name contains potentially malicious content")
    ELSE IF Len(photoData.name) > MaxPhotoName
    THEN Reject("PhotoNameLength", "Photo name too long (maximum 255 characters allowed)")
    ELSE IF ~StartsWith(photoData.data, "data:image/") \/ ~Includes(photoData.data, "base64,")
    THEN Reject("PhotoFormat", "Invalid photo data format - must be base64 encoded image")
    ELSE IF Len(Base64Data(photoData.data)) < MinBase64Length
    THEN Reject("PhotoCorrupted", "Invalid or corrupted photo data")
    ELSE Accept(photoData)

(***************************************************************************)
(* Retrying fetcher: safeFetchWithRetry(url, options, retries = 3).        *)
(***************************************************************************)
DefaultRetries == 3

NoResult == [type |-> "none", payload |-> "", msg |-> ""]

\* what one fetch() can come to: a 2xx response whose body parses as JSON, a
\* 2xx response whose body does not, a non-2xx response, a transport failure
StatusTexts == {"Internal Server Error", "URL too long"}
Outcome(kind, status, payload, text) ==
    [kind |-> kind, status |-> status, payload |-> payload, text |-> text]
Failures(texts) ==
    {Outcome("http", 429, "", "Too Many Requests"), Outcome("net", 0, "", "")}
    \cup {Outcome("http", 500, "", t) : t \in texts}
Outcomes ==
    {Outcome("ok", 200, p, "OK") : p \in {"p1", "p2"}}
    \cup Failures(StatusTexts) \cup {Outcome("badjson", 200, "", "")}

\* the Error a failed attempt produces inside the try block
ApiErrorMessage(o) ==
    CASE o.kind = "http"    -> "API error " \o ToString(o.status) \o ": " \o o.text
      [] o.kind = "net"     -> "fetch failed"
      [] o.kind = "badjson" -> "Unexpected end of JSON input"
      [] OTHER              -> ""

\* let attempt = 0, before the loop is entered
NewFetcher(retries) ==
    [retries |-> retries, attempt |-> 0, pc |-> "idle", calls |-> 0, done |-> 0,
     waits |-> <<>>, waited |-> 0, result |-> NoResult]

\* (mutant) the exponent taken one too high
BackoffDelay_OffByOne(attempt) == Pow2(attempt + 1) * 1000

\* the delay of the backoff wait that follows a failure of attempt number `attempt`
BackoffDelay(attempt) == Pow2(attempt) * 1000

\* (mutant) the final attempt taken to be number `retries`
IsFinalAttempt_OffByOne(c) == c.attempt = c.retries

\* is this the attempt after which the failure is propagated instead of retried
IsFinalAttempt(c) == c.attempt = c.retries - 1

\* while (attempt < retries) { ... fetch(url, options) ... }; falling out of the
\* loop ends the function without a return value
EnterLoop(c) ==
    IF c.attempt < c.retries
    THEN [c EXCEPT !.pc = "fetching", !.calls = @ + 1]
    ELSE [c EXCEPT !.pc = "returned",
                   !.result = [type |-> "undefined", payload |-> "", msg |-> ""]]

\* the wait started after a failed attempt that is not the final one
StartWait(c) ==
    [c EXCEPT !.pc = "waiting", !.waits = Append(@, BackoffDelay(c.attempt))]

\* (mutant) the error of res.json() leaves the function at once
OnReply_ParseErrorFatal(c, o) ==
    LET d == [c EXCEPT !.done = @ + 1] IN
    IF o.kind = "ok"
    THEN [d EXCEPT !.pc = "returned",
                   !.result = [type |-> "value", payload |-> o.payload, msg |-> ""]]
    ELSE IF o.kind = "http" /\ o.status = 429 /\ c.attempt < c.retries - 1
    THEN StartWait(d)
    ELSE IF IsFinalAttempt(c) \/ o.kind = "badjson"
    THEN [d EXCEPT !.pc = "raised",
                   !.result = [type |-> "error", payload |-> "",
                               msg |-> ApiErrorMessage(o)]]
    ELSE StartWait(d)

\* the body of the loop once fetch() has settled with outcome o
OnReply(c, o) ==
    LET d == [c EXCEPT !.done = @ + 1] IN
    IF o.kind = "ok"
    THEN [d EXCEPT !.pc = "returned",
                   !.result = [type |-> "value", payload |-> o.payload, msg |-> ""]]
    ELSE IF o.kind = "http" /\ o.status = 429 /\ c.attempt < c.retries - 1
    THEN StartWait(d)
    ELSE IF IsFinalAttempt(c)
    THEN [d EXCEPT !.pc = "raised",
                   !.result = [type |-> "error", payload |-> "",
                               msg |-> ApiErrorMessage(o)]]
    ELSE StartWait(d)

\* the wait elapsed: attempt++ and the loop condition is evaluated again
OnWaitDone(c) ==
    EnterLoop([c EXCEPT !.attempt = @ + 1, !.waited = @ + 1])

Settled(c) == c.pc \in {"returned", "raised"}

(***************************************************************************)
(* SpecFetch: one invocation of safeFetchWithRetry.                        *)
(***************************************************************************)
RetryChoices == (-1)..MaxRetries

FetchInit ==
    /\ fc \in {NewFetcher(n) : n \in RetryChoices}
    /\ outs = <<>>
    /\ uin = "off"
    /\ ures = "off"
    /\ lib = "off"
    /\ rq = "off"
    /\ reply = "off"
    /\ syn = "off"
    /\ arg = "off"
    /\ ret = "off"
    /\ rqs = "off"
    /\ mem = "off"
    /\ lim = "off"
    /\ rd = "off"

\* the caller invokes safeFetchWithRetry: runs up to the first await
FetchCall ==
    /\ fc.pc = "idle"
    /\ fc' = EnterLoop(fc)
    /\ UNCHANGED <<outs, uin, ures, lib, rq, reply, syn, arg, ret, rqs, mem, lim, rd>>

\* the pending fetch() settles
FetchReply ==
    /\ fc.pc = "fetching"
    /\ \E o \in Outcomes :
          /\ fc' = OnReply(fc, o)
          /\ outs' = Append(outs, o)
    /\ UNCHANGED <<uin, ures, lib, rq, reply, syn, arg, ret, rqs, mem, lim, rd>>

\* the pending wait() elapses
FetchWaitDone ==
    /\ fc.pc = "waiting"
    /\ fc' = OnWaitDone(fc)
    /\ UNCHANGED <<outs, uin, ures, lib, rq, reply, syn, arg, ret, rqs, mem, lim, rd>>

FetchNext == FetchCall \/ FetchReply \/ FetchWaitDone

SpecFetch == FetchInit /\ [][FetchNext]_vars

(***************************************************************************)
(* Claims about the retrying fetcher.                                      *)
(***************************************************************************)
\* the positions of the 2xx outcomes with a JSON payload among the first n calls
OkPositions(n) == {i \in 1..Len(outs) : i <= n /\ outs[i].kind = "ok"}
FirstOk(n) == CHOOSE k \in OkPositions(n) : \A j \in OkPositions(n) : k <= j

\* C1: with maxAttempts = n >= 1, if the first 2xx outcome is the k-th (k <= n)
\* exactly k calls are issued and that call's JSON payload is returned; if none of
\* the first n outcomes is 2xx exactly n calls are issued and the error is raised
\* after the n-th. No other way of ending exists.
C1_ExactCallsAndResult ==
    (fc.retries >= 1) =>
        /\ fc.calls <= fc.retries
        /\ fc.calls = Len(outs) + (IF fc.pc = "fetching" THEN 1 ELSE 0)
        /\ (OkPositions(fc.retries) # {}) =>
              /\ fc.pc = "returned"
              /\ fc.calls = FirstOk(fc.retries)
              /\ Len(outs) = FirstOk(fc.retries)
              /\ fc.result = [type |-> "value",
                              payload |-> outs[FirstOk(fc.retries)].payload,
                              msg |-> ""]
        /\ (Len(outs) = fc.retries /\ OkPositions(fc.retries) = {}) =>
              /\ fc.pc = "raised"
              /\ fc.calls = fc.retries
              /\ fc.result.type = "error"
        /\ Settled(fc) =>
              \/ OkPositions(fc.retries) # {}
              \/ Len(outs) = fc.retries

\* the run [429, 429, 200] with n = 3 has ended with the payload of the third call
C1_Witness ==
    /\ fc.retries = 3
    /\ Len(outs) = 3
    /\ outs[1].status = 429 /\ outs[2].status = 429 /\ outs[3].kind = "ok"
    /\ fc.pc = "returned" /\ fc.calls = 3
    /\ fc.result.payload = outs[3].payload

\* the failed attempts that were not the final one
RetriedFailures ==
    {i \in 1..Len(outs) : outs[i].kind # "ok" /\ i < fc.retries}

\* C2: every failed attempt i (0-indexed) that is not the final one is followed by
\* exactly one wait of 2^i * 1000 ms, no wait follows the final attempt, a call is
\* issued only when the previous call has completed and its wait has elapsed, and
\* the waits of a run add up to at most the sum of 2^i * 1000 for i < retries - 1.
C2_BackoffSchedule ==
    (fc.retries >= 1) =>
        /\ Len(fc.waits) = Cardinality(RetriedFailures)
        /\ \A i \in 1..Len(fc.waits) : fc.waits[i] = Pow2(i - 1) * 1000
        /\ (fc.pc = "raised") => Len(fc.waits) = fc.retries - 1
        /\ fc.calls - fc.done \in {0, 1}
        /\ (fc.pc = "fetching") =>
              /\ fc.done = fc.calls - 1
              /\ Len(fc.waits) = fc.calls - 1
              /\ fc.waited = Len(fc.waits)
        /\ (fc.pc = "waiting") =>
              /\ fc.done = fc.calls
              /\ fc.waited = Len(fc.waits) - 1
        /\ SumSeq(fc.waits) <= (Pow2(fc.retries - 1) - 1) * 1000

\* a run of three attempts failed by a 429 and then twice by a 500: two waits, of
\* 1000 and 2000 ms, and none after the third failure
C2_Witness ==
    /\ fc.retries = 3
    /\ fc.pc = "raised"
    /\ Len(outs) = 3
    /\ outs[1].status = 429 /\ outs[2].status = 500 /\ outs[3].status = 500
    /\ fc.waits = <<1000, 2000>>
    /\ fc.waited = 2

(***************************************************************************)
(* SpecURL: validateURL applied to one input.                              *)
(***************************************************************************)
\* a URL of exactly n characters
PaddedTo(prefix, n) == prefix \o Repeat("a", n - Len(prefix))

URLInputs ==
    LET schemes == {"", "http://", "https://", "HTTP://", "ftp://", "mailto:", "file://"}
        hosts ==
            {"example.com", "localhost", "LOCALHOST", "LocalHost", "localhost.",
             "ip6-localhost", "IP6-Loopback", "broadcasthost", "user@example.com",
             "0.0.0.0", "0", "127.0.0.1", "127.1", "0x7f.0.0.1", "2130706433",
             "10.0.0.1", "172.16.0.1", "172.32.0.1", "192.168.1.1", "169.254.169.254",
             "224.0.0.1", "239.255.255.250", "255.255.255.255", "8.8.8.8",
             "[::1]", "::1", "[::]", "[fe80::1]", "[FE80::1]", "[febf::1]", "[ff02::1]",
             "[fc00::1]", "[FD12:3456::1]", "[2001:db8::1]"}
        ports == {"", ":8080"}
        paths == {"", "/", "/admin", "/../admin", "/a/..", "/a/..b", "/x?u=data:1",
                  "/<Script>", "/a b"}
        lengths == (MaxURLLength - PadSlack)..(MaxURLLength + PadSlack)
    IN  NonStrings
        \cup {Str(s) : s \in {"", "   ", " example.com/a ", " http://localhost ",
                              "javascript:alert(1)", "data:text/html,x", "http://",
                              "http://example.com:99999/", "http://user@localhost/"}}
        \cup {Str(sch \o h \o p \o "/a") : sch \in schemes, h \in hosts, p \in ports}
        \cup {Str(sch \o h \o p) : sch \in {"", "http://"},
                                   h \in {"example.com", "localhost", "127.0.0.1"},
                                   p \in paths}
        \cup {Str(PaddedTo(sch \o h \o "/", n)) : sch \in {"", "https://", "ftp://"},
                                                  h \in {"example.com", "localhost",
                                                          "exa mple.com"},
                                                  n \in lengths}
        \cup {Str(PaddedTo("example.com/", n - Len("https://"))) : n \in lengths}
        \cup {Str("  " \o PaddedTo("http://example.com/", n) \o " \n") : n \in lengths}

NotCalled == [ok |-> FALSE, value |-> "", err |-> "none", msg |-> ""]

URLInit ==
    /\ uin \in URLInputs
    /\ ures = NotCalled
    /\ lib \in LibChoices
    /\ fc = "off"
    /\ outs = "off"
    /\ rq = "off"
    /\ reply = "off"
    /\ syn = "off"
    /\ arg = "off"
    /\ ret = "off"
    /\ rqs = "off"
    /\ mem = "off"
    /\ lim = "off"
    /\ rd = "off"

ValidateURLCall ==
    /\ ures = NotCalled
    /\ ures' = validateURL(uin, lib)
    /\ UNCHANGED <<uin, lib, fc, outs, rq, reply, syn, arg, ret, rqs, mem, lim, rd>>

URLNext == ValidateURLCall

SpecURL == URLInit /\ [][URLNext]_vars

(***************************************************************************)
(* Claims about validateURL.                                               *)
(***************************************************************************)
URLCalled == ures # NotCalled
\* the URL the input stands for: the trimmed input, https:// put in front of it
\* when it has no http:// or https:// prefix
TargetOf(v) ==
    LET t == Trim(v.s)
    IN  IF StartsWith(t, "http://") \/ StartsWith(t, "https://") THEN t
        ELSE "https://" \o t
TargetHost(v) ==
    IF v.t = "string" /\ Trim(v.s) # "" THEN ParseURL(TargetOf(v)) ELSE ParseFailure

\* RFC1918 private, loopback, link-local, multicast, broadcast (IPv4); loopback,
\* link-local, multicast, unique-local (IPv6)
ProtectedAddress(h) ==
    \/ /\ h.kind = "ipv4"
       /\ \/ IsPrivate(h) \/ IsLoopback(h) \/ IsLinkLocal(h) \/ IsBroadcast(h)
          \/ h.addr[1] \in 224..239
    \/ /\ h.kind = "ipv6"
       /\ \/ IsPrivate(h) \/ IsLoopback(h) \/ IsLinkLocal(h)
          \/ h.addr[1] \div 256 = 255
EarlierRuleErrors ==
    {"MissingInput", "InvalidFormat", "DisallowedScheme", "TooLong", "SuspiciousPattern"}

\* C4: validateURL never returns successfully for an input whose host is an IP
\* literal in a private, loopback, link-local, multicast, broadcast or unique-local
\* range; every such input is rejected with PrivateNetworkAccess or with the error
\* of an earlier rule.
C4_NoProtectedAddressAccepted ==
    (URLCalled /\ TargetHost(uin).ok /\ ProtectedAddress(TargetHost(uin))) =>
        /\ ~ures.ok
        /\ ures.err \in EarlierRuleErrors \cup {"PrivateNetworkAccess"}

\* the host name of a URL, an IPv6 literal without its brackets
HostNameOf(h) ==
    IF h.kind = "ipv6" THEN SubSeq(h.hostname, 2, Len(h.hostname) - 1) ELSE h.hostname

\* C5: every URL whose hostname equals, case-insensitively, one of localhost,
\* 0.0.0.0, ::1, ip6-localhost, ip6-loopback, broadcasthost is rejected with
\* PrivateNetworkAccess, for any port, path and scheme prefix.
C5_LocalNamesRejected ==
    (URLCalled /\ TargetHost(uin).ok
        /\ HostNameOf(TargetHost(uin)) \in suspiciousHostnames) =>
        /\ ~ures.ok
        /\ ures.err = "PrivateNetworkAccess"

\* the scheme an input is written with: the text before "://", or one of the
\* schemes that take no slashes, in lower case; "" when it has none
InputScheme(v) ==
    LET t == Trim(v.s)
        at == {i \in 1..(Len(t) - 2) : SubSeq(t, i, i + 2) = "://"}
    IN  IF at # {} /\ MinOf(at) > 1
           /\ (\A i \in 1..(MinOf(at) - 1) : Lower(Ch(t, i)) \in {Ch(LowerCase, k) : k \in 1..26})
        THEN ToLowerCase(SubSeq(t, 1, MinOf(at) - 1))
        ELSE IF \E p \in {"mailto:", "javascript:", "data:"} : StartsWith(ToLowerCase(Prefix(t, 11)), p)
        THEN ToLowerCase(SubSeq(t, 1, MinOf(Positions(t, ":")) - 1))
        ELSE ""

\* C6: every input whose scheme is something other than http or https is rejected
\* with the DisallowedScheme error; none is accepted and none is reported under
\* a different error kind.
C6_OtherSchemesDisallowed ==
    (URLCalled /\ uin.t = "string" /\ InputScheme(uin) \notin {"", "http", "https"}) =>
        /\ ~ures.ok
        /\ ures.err = "DisallowedScheme"

\* C7: on success validateURL returns the trimmed input unchanged when it carries
\* an http:// or https:// prefix and "https://" followed by the trimmed input when
\* it carries none; the parse, length, pattern and host checks have all passed on
\* that very string.
C7_ReturnsPrefixedTrimmedInput ==
    (URLCalled /\ ures.ok) =>
        /\ uin.t = "string"
        /\ ures.value = TargetOf(uin)
        /\ ParseURL(ures.value).ok
        /\ Len(ures.value) <= MaxURLLength
        /\ ~HasSuspiciousPattern(ures.value)
        /\ ParseURL(ures.value).hostname \notin suspiciousHostnames

\* example.com/a, surrounded by blanks and without a scheme, came back as
\* https://example.com/a
C7_Witness ==
    /\ uin = Str(" example.com/a ")
    /\ ures.ok
    /\ ures.value = "https://example.com/a"

(***************************************************************************)
(* Synthesis stage: what synthesizeWithLLM makes of the text of the reply. *)
(***************************************************************************)
\* responseText.match(/FENCEjson\n(.*)\nFENCE/) with "." matching any character
\* and FENCE three grave accents: the leftmost opening fence and, the group
\* being greedy, the last closing fence after it. A TLA+ string cannot hold a
\* grave accent: the model writes the character as "~".
Fence == "~~~"
\* (mutant) the whole match is taken instead of the group
JsonMatch_WholeMatch(t) ==
    LET opening == Fence \o "json\n"
        closing == "\n" \o Fence
        open == {i \in 1..(Len(t) - 7) : SubSeq(t, i, i + 7) = opening}
        close == {j \in 1..(Len(t) - 3) : SubSeq(t, j, j + 3) = closing}
        from == {i \in open : \E j \in close : j >= i + 8}
    IN  IF from = {} THEN [found |-> FALSE, group |-> ""]
        ELSE [found |-> TRUE, group |-> SubSeq(t, MinOf(from), MaxOf(close) + 3)]

JsonMatch(t) ==
    LET opening == Fence \o "json\n"
        closing == "\n" \o Fence
        open == {i \in 1..(Len(t) - 7) : SubSeq(t, i, i + 7) = opening}
        close == {j \in 1..(Len(t) - 3) : SubSeq(t, j, j + 3) = closing}
        from == {i \in open : \E j \in close : j >= i + 8}
    IN  IF from = {} THEN [found |-> FALSE, group |-> ""]
        ELSE [found |-> TRUE, group |-> SubSeq(t, MinOf(from) + 8, MaxOf(close) - 1)]

\* JSON.parse on the texts the model draws: a scalar, or an object whose
\* members are scalars without "," and ":" in them. The value is written in
\* canonical form (no white space between tokens).
JSONScalar(t) ==
    \/ t \in {"null", "true", "false"}
    \/ t # "" /\ AllDigits(t, 10) /\ (Len(t) = 1 \/ Ch(t, 1) # "0")
    \/ /\ Len(t) >= 2 /\ Ch(t, 1) = "\"" /\ Ch(t, Len(t)) = "\""
       /\ \A i \in 2..(Len(t) - 1) : Ch(t, i) \notin {"\"", "\\", "\n", "\t", "\r"}
JSONMember(m) ==
    LET kv == Split(m, ":")
    IN  IF Len(kv) = 2 /\ JSONScalar(Trim(kv[1])) /\ Ch(Trim(kv[1]), 1) = "\""
           /\ JSONScalar(Trim(kv[2]))
        THEN [ok |-> TRUE, value |-> Trim(kv[1]) \o ":" \o Trim(kv[2])]
        ELSE [ok |-> FALSE, value |-> ""]
RECURSIVE JoinWith(_, _)
JoinWith(q, sep) ==
    IF q = <<>> THEN "" ELSE IF Len(q) = 1 THEN q[1]
    ELSE q[1] \o sep \o JoinWith(Tail(q), sep)
JSONParse(text) ==
    LET t == Trim(text)
        inner == Trim(SubSeq(t, 2, Len(t) - 1))
        members == Split(inner, ",")
    IN  IF JSONScalar(t) THEN [ok |-> TRUE, value |-> t]
        ELSE IF Len(t) >= 2 /\ Ch(t, 1) = "{" /\ Ch(t, Len(t)) = "}"
        THEN IF inner = "" THEN [ok |-> TRUE, value |-> "{}"]
             ELSE IF \A i \in 1..Len(members) : JSONMember(members[i]).ok
             THEN [ok |-> TRUE,
                   value |-> "{" \o JoinWith([i \in 1..Len(members) |->
                                                JSONMember(members[i]).value], ",") \o "}"]
             ELSE [ok |-> FALSE, value |-> ""]
        ELSE [ok |-> FALSE, value |-> ""]

\* the synthesis field of the combined result. `details` holds the reasons of
\* "One or more detection models failed."; `reason` holds the details string of
\* "Synthesis failed"; `value` holds the JSON value the reply parsed to.
NoDetails == [sarcasm |-> "undefined", zeroShot |-> "undefined", politicalBias |-> "undefined"]
Synthesis(error, details, reason, rawResponse, value) ==
    [error |-> error, details |-> details, reason |-> reason,
     rawResponse |-> rawResponse, value |-> value]

\* (mutant) the extracted string is kept as rawResponse
SynthesisOf_GroupAsRaw(responseText) ==
    IF responseText = ""
    THEN Synthesis("Synthesis unavailable", NoDetails, "", "", "")
    ELSE LET jsonMatch == JsonMatch(responseText)
             jsonString == IF jsonMatch.found THEN jsonMatch.group ELSE responseText
             parsed == JSONParse(jsonString)
         IN  IF parsed.ok THEN Synthesis("", NoDetails, "", "", parsed.value)
             ELSE Synthesis("Synthesis unavailable", NoDetails, "", jsonString, "")

\* synthesizeWithLLM after safeFetchWithRetry returned; responseText is "" when
\* the reply has no candidates[0].content.parts[0].text
SynthesisOf(responseText) ==
    IF responseText = ""
    THEN Synthesis("Synthesis unavailable", NoDetails, "", "", "")
    ELSE LET jsonMatch == JsonMatch(responseText)
             jsonString == IF jsonMatch.found THEN jsonMatch.group ELSE responseText
             parsed == JSONParse(jsonString)
         IN  IF parsed.ok THEN Synthesis("", NoDetails, "", "", parsed.value)
             ELSE Synthesis("Synthesis unavailable", NoDetails, "", responseText, "")

(***************************************************************************)
(* The analyze endpoint: POST, the three mode handlers, the extraction     *)
(* fetch, the transcription call and detectContent. A request is a record: *)
(*   body   the request body;                                              *)
(*   pc     "start", then the await the handler is suspended at            *)
(*          ("extract", "transcribe", "classify", "synth"), then "done";   *)
(*   call   the state of each external call of the request;                *)
(*   text   the sanitized text handed to detectContent ("" before that);   *)
(*   thrown, origin  the message of the error that reached POST's catch    *)
(*          block and where it was raised (history);                       *)
(*   resp   the response.                                                  *)
(***************************************************************************)
Undefined == [t |-> "undefined", s |-> ""]
Number == [t |-> "number", s |-> "123"]

ClassifierCalls == {"sarcasm", "zeroShot", "politicalBias"}
RetriedCalls == ClassifierCalls \cup {"transcribe", "synth"}
CallNames == RetriedCalls \cup {"extract"}

\* the combined result of detectContent; an analysis field is the payload of
\* the call, "null", or "undefined" (the field is then absent from the JSON)
CombinedResult(synthesis, zeroShot, sarcasmRaw, politicalBias) ==
    [synthesis |-> synthesis, zeroShotAnalysis |-> zeroShot,
     sarcasmAnalysis |-> sarcasmRaw, politicalBiasAnalysis |-> politicalBias]
NoBody == CombinedResult(Synthesis("", NoDetails, "", "", ""),
                         "undefined", "undefined", "undefined")

NewRequest(body) ==
    [body |-> body, pc |-> "start", text |-> "",
     call |-> [k \in CallNames |-> NewFetcher(DefaultRetries)],
     thrown |-> "", origin |-> "",
     resp |-> [status |-> 0, error |-> "", body |-> NoBody]]

\* createErrorResponse(message, status) and NextResponse.json(result, {status: 200})
createErrorResponse(r, message, status) ==
    [r EXCEPT !.pc = "done",
              !.resp = [status |-> status, error |-> message, body |-> NoBody]]
RespondResult(r, result) ==
    [r EXCEPT !.pc = "done", !.resp = [status |-> 200, error |-> "", body |-> result]]

\* the catch block of POST
whitelist ==
    {"URL is required", "Invalid URL format", "URL too long",
     "Access to private/local URLs", "Could not extract article content",
     "Text content is required", "Text content too large",
     "Potentially malicious content detected", "Failed to fetch content",
     "Photo size too large", "Unsupported file type",
     "Photo name contains potentially malicious content",
     "Failed to extract text from image", "Invalid or corrupted photo data"}
GenericMessage == "An unexpected error occurred while processing your request."
Catch(r, message, origin) ==
    LET e == [r EXCEPT !.thrown = message, !.origin = origin]
    IN  IF message # "" /\ \E p \in whitelist : Includes(message, p)
        THEN createErrorResponse(e, message, 400)
        ELSE createErrorResponse(e, GenericMessage, 500)

\* (mutant) a call made with a single attempt
StartCall_Once(r, k) == [r EXCEPT !.call[k] = EnterLoop(NewFetcher(1))]

\* a caller invokes safeFetchWithRetry(url, options): retries takes its default
StartCall(r, k) == [r EXCEPT !.call[k] = EnterLoop(NewFetcher(DefaultRetries))]

\* extract() calls fetch(url, {headers}) itself: one call, nothing after it
StartBareFetch(r, k) ==
    [r EXCEPT !.call[k] = [NewFetcher(1) EXCEPT !.pc = "fetching", !.calls = 1]]

\* a JSON array, given by its elements joined with commas; [] is Array("")
Array(s) == [t |-> "array", s |-> s]

\* an error leaves the function that was running: the request carries it until
\* a catch block of a caller takes it
Throw(r, message) == [r EXCEPT !.pc = "threw", !.thrown = message]

\* (mutant) the label group is not validated
detectContent_LabelsUnchecked(r, text, labelGroup) ==
    IF text.t # "string" \/ Trim(text.s) = ""
    THEN Throw(r, "Invalid or missing 'text'.")
    ELSE [StartCall(StartCall(StartCall(r, "sarcasm"), "zeroShot"), "politicalBias")
            EXCEPT !.pc = "classify"]

\* detectContent up to its await of Promise.allSettled
detectContent(r, text, labelGroup) ==
    IF text.t # "string" \/ Trim(text.s) = ""
    THEN Throw(r, "Invalid or missing 'text'.")
    ELSE IF labelGroup.t # "array" \/ labelGroup.s = ""
    THEN Throw(r, "Invalid or missing 'labelGroup'.")
    ELSE [StartCall(StartCall(StartCall(r, "sarcasm"), "zeroShot"), "politicalBias")
            EXCEPT !.pc = "classify"]

\* the catch block of callDetectionAPI rethrows the error of detectContent
\* wrapped, and the catch block of POST takes it
WrapDetectionError(message) ==
    "Internal Server Error while analyzing content: " \o message
callDetectionAPI(r) ==
    IF r.pc = "threw" THEN Catch(r, WrapDetectionError(r.thrown), "detection") ELSE r
StartDetection(r, sanitizedContent) ==
    callDetectionAPI(
        detectContent([r EXCEPT !.text = sanitizedContent], Str(sanitizedContent),
                      Array("authentic,fabricated,misinformation,report,opinion,analysis,"
                            \o "advertisement,sponsored,blog,press_release,interview,"
                            \o "extreme,emotional,clickbait,conspiracy,scam")))

\* the handlers up to their first await
\* (mutant) the page is fetched whatever validateURL said
LinkValidated_Unchecked(r, v) == [StartBareFetch(r, "extract") EXCEPT !.pc = "extract"]

LinkValidated(r, v) ==
    IF ~v.ok THEN Catch(r, v.msg, v.err)
    ELSE [StartBareFetch(r, "extract") EXCEPT !.pc = "extract"]
handleLinkMode(r, query, L) ==
    IF Falsy(query) THEN createErrorResponse(r, "URL is required for link mode", 400)
    ELSE LinkValidated(r, validateURL(query, L))
\* (mutant) text mode sanitizes with the injection check skipped
handleTextMode_CheckSkipped(r, content) ==
    IF Falsy(content) THEN createErrorResponse(r, "Text content is required for text mode", 400)
    ELSE LET v == sanitizeText(content, TRUE)
         IN  IF ~v.ok THEN Catch(r, v.msg, v.err)
             ELSE IF v.value = ""
             THEN createErrorResponse(r, "Text content cannot be empty after sanitization", 400)
             ELSE StartDetection(r, v.value)

handleTextMode(r, content) ==
    IF Falsy(content) THEN createErrorResponse(r, "Text content is required for text mode", 400)
    ELSE LET v == sanitizeText(content, FALSE)
         IN  IF ~v.ok THEN Catch(r, v.msg, v.err)
             ELSE IF v.value = ""
             THEN createErrorResponse(r, "Text content cannot be empty after sanitization", 400)
             ELSE StartDetection(r, v.value)
handlePhotoMode(r, photo) ==
    IF Falsy(photo) THEN createErrorResponse(r, "Photo is required for photo mode", 400)
    ELSE LET v == validatePhoto(photo)
         IN  IF ~v.ok THEN Catch(r, v.msg, v.err)
             ELSE [StartCall(r, "transcribe") EXCEPT !.pc = "transcribe"]

\* (mutant) the body is destructured outside the try block
POST_DestructuredOutsideTry(r, L) ==
    LET b == r.body IN
    IF b.json = "invalid" THEN createErrorResponse(r, "Invalid JSON in request body", 400)
    ELSE IF b.json = "null"
    THEN Throw(r, "Cannot destructure property 'mode' of 'requestData' as it is null.")
    ELSE IF Falsy(b.mode) \/ b.mode.t # "string"
    THEN createErrorResponse(r, "Mode parameter is required and must be a string", 400)
    ELSE IF b.mode.s \notin {"link", "text", "photo"}
    THEN createErrorResponse(r, "Invalid mode. Must be one of: link, text, photo", 400)
    ELSE CASE b.mode.s = "link"  -> handleLinkMode(r, b.query, L)
           [] b.mode.s = "text"  -> handleTextMode(r, b.content)
           [] b.mode.s = "photo" -> handlePhotoMode(r, b.photo)

POST(r, L) ==
    LET b == r.body IN
    IF b.json = "invalid" THEN createErrorResponse(r, "Invalid JSON in request body", 400)
    ELSE IF b.json = "null"
    THEN Catch(r, "Cannot destructure property 'mode' of 'requestData' as it is null.",
               "TypeError")
    ELSE IF Falsy(b.mode) \/ b.mode.t # "string"
    THEN createErrorResponse(r, "Mode parameter is required and must be a string", 400)
    ELSE IF b.mode.s \notin {"link", "text", "photo"}
    THEN createErrorResponse(r, "Invalid mode. Must be one of: link, text, photo", 400)
    ELSE CASE b.mode.s = "link"  -> handleLinkMode(r, b.query, L)
           [] b.mode.s = "text"  -> handleTextMode(r, b.content)
           [] b.mode.s = "photo" -> handlePhotoMode(r, b.photo)

\* handleLinkMode resumed when the fetch of extract() settled with outcome o;
\* o.payload is the text Readability (or the cheerio fallback) found in the page
AfterExtract(r, o) ==
    LET c == [r.call["extract"] EXCEPT !.done = @ + 1]
        failed(msg) == [r EXCEPT !.call["extract"] =
                          [c EXCEPT !.pc = "raised",
                                    !.result = [type |-> "error", payload |-> "", msg |-> msg]]]
        got == [r EXCEPT !.call["extract"] =
                  [c EXCEPT !.pc = "returned",
                            !.result = [type |-> "value", payload |-> o.payload, msg |-> ""]]]
    IN  IF o.kind = "net" THEN Catch(failed("fetch failed"), "fetch failed", "extract")
        ELSE IF o.kind = "http"
        THEN LET msg == "Request failed with error code " \o ToString(o.status)
             IN  Catch(failed(msg), msg, "extract")
        ELSE IF o.payload = ""
        THEN createErrorResponse(got,
               "Could not extract article content from the provided URL. Please check if the URL is accessible and contains readable content.",
               400)
        ELSE LET v == sanitizeText(Str(o.payload), TRUE)
             IN  IF ~v.ok THEN Catch(got, v.msg, v.err)
                 ELSE IF v.value = ""
                 THEN createErrorResponse(got, "Text content cannot be empty after sanitization", 400)
                 ELSE StartDetection(got, v.value)

\* (mutant) the minimum length of the transcription is not required
AfterTranscribe_NoMinLength(r) ==
    LET c == r.call["transcribe"] IN
    IF c.pc = "raised" \/ c.result.payload = ""
    THEN Catch(r, "Failed to extract text from image.", "transcribe")
    ELSE LET extractedText == IF Trim(c.result.payload) = "NO_TEXT_FOUND" THEN ""
                              ELSE c.result.payload
             v == sanitizeText(Str(extractedText), TRUE)
         IN  IF ~v.ok THEN Catch(r, v.msg, v.err)
             ELSE IF v.value = ""
             THEN createErrorResponse(r, "No discernible text was found in the provided image.", 400)
             ELSE StartDetection(r, v.value)

\* detectTextFromImage and handlePhotoMode resumed when the transcription call
\* settled; the payload is candidates[0].content.parts[0].text, "" when absent
AfterTranscribe(r) ==
    LET c == r.call["transcribe"] IN
    IF c.pc = "raised" \/ c.result.payload = ""
    THEN Catch(r, "Failed to extract text from image.", "transcribe")
    ELSE LET extractedText == IF Trim(c.result.payload) = "NO_TEXT_FOUND" THEN ""
                              ELSE c.result.payload
             v == sanitizeText(Str(extractedText), TRUE)
         IN  IF ~v.ok THEN Catch(r, v.msg, v.err)
             ELSE IF v.value = "" \/ Len(v.value) < 3
             THEN createErrorResponse(r, "No discernible text was found in the provided image.", 400)
             ELSE StartDetection(r, v.value)

\* detectContent resumed when Promise.allSettled settled. detectSarcasm reads
\* result[0], which throws on a null payload; the other two return the payload.
Fulfilled(r, k) ==
    r.call[k].pc = "returned" /\ (k = "sarcasm" => r.call[k].result.payload # "null")
Reason(r, k) ==
    IF Fulfilled(r, k) THEN "undefined"
    ELSE IF r.call[k].pc = "raised" THEN r.call[k].result.msg
    ELSE "Cannot read properties of null (reading '0')"
getResultOrNull(r, k) == IF Fulfilled(r, k) THEN r.call[k].result.payload ELSE "null"
Truthy(v) == v \notin {"null", "undefined"}
Combine(r, synthesis) ==
    CombinedResult(synthesis, getResultOrNull(r, "zeroShot"),
                   IF Fulfilled(r, "sarcasm") THEN r.call["sarcasm"].result.payload
                   ELSE "undefined",
                   getResultOrNull(r, "politicalBias"))
AfterJoin(r) ==
    IF \A k \in ClassifierCalls : Truthy(getResultOrNull(r, k))
    THEN [StartCall(r, "synth") EXCEPT !.pc = "synth"]
    ELSE RespondResult(r, Combine(r,
           Synthesis("One or more detection models failed.",
                     [k \in ClassifierCalls |-> Reason(r, k)], "", "", "")))

\* synthesizeWithLLM, detectContent, callDetectionAPI and the handler resumed
\* when the synthesis call settled. detection-logic.js comes in two revisions:
\* `guarded` is the one whose synthesizeWithLLM catches the error of the call.
AfterSynthesis(r, guarded) ==
    LET c == r.call["synth"] IN
    IF c.pc = "returned" THEN RespondResult(r, Combine(r, SynthesisOf(c.result.payload)))
    ELSE IF guarded
    THEN RespondResult(r, Combine(r, Synthesis("Synthesis failed", NoDetails,
                                               c.result.msg, "", "")))
    ELSE Throw(r, c.result.msg)

\* (mutant) the join resumes at the first rejection, as Promise.all does
Continue_FailFast(r, k, guarded) ==
    IF ~Settled(r.call[k]) THEN r
    ELSE IF k = "transcribe" THEN AfterTranscribe(r)
    ELSE IF k = "synth" THEN AfterSynthesis(r, guarded)
    ELSE IF r.call[k].pc = "raised" \/ \A j \in ClassifierCalls : Settled(r.call[j])
    THEN AfterJoin(r)
    ELSE r

\* the code that runs when call k has just settled
Continue(r, k, guarded) ==
    IF ~Settled(r.call[k]) THEN r
    ELSE IF k = "transcribe" THEN AfterTranscribe(r)
    ELSE IF k = "synth" THEN AfterSynthesis(r, guarded)
    ELSE IF \A j \in ClassifierCalls : Settled(r.call[j]) THEN AfterJoin(r)
    ELSE r

(***************************************************************************)
(* SpecReq: one POST and the replies of the services it calls.             *)
(***************************************************************************)
NoPhoto == [t |-> "undefined", s |-> "", data |-> "", name |-> "", size |-> 0,
            sizeType |-> "undefined", type |-> ""]
GoodPhoto ==
    Photo("data:image/png;base64," \o Repeat("A", MinBase64Length), "scan.png", 204800,
          "image/png")
RequestBodies ==
    LET Body(mode, query, content, photo) ==
            [json |-> "object", mode |-> mode, query |-> query, content |-> content,
             photo |-> photo]
        photos ==
            {NoPhoto, [NoPhoto EXCEPT !.t = "string", !.s = "abc"], GoodPhoto,
             [GoodPhoto EXCEPT !.name = ""],
             [GoodPhoto EXCEPT !.size = MaxPhotoSize + 1],
             [GoodPhoto EXCEPT !.size = 0],
             [GoodPhoto EXCEPT !.type = "image/svg+xml"],
             [GoodPhoto EXCEPT !.name = "scan.php"],
             [GoodPhoto EXCEPT !.name = Repeat("a", MaxPhotoName + 1)],
             [GoodPhoto EXCEPT !.data = "data:text/plain;base64,"
                                          \o Repeat("A", MinBase64Length)],
             [GoodPhoto EXCEPT !.data = "data:image/png;base64,AAAA"]}
        queries ==
            {Undefined, Number, Str(""), Str("   "), Str("example.com/news"),
             Str("http://exa mple.com/"),
             Str(PaddedTo("https://example.com/", MaxURLLength + 1)),
             Str("http://example.com/../etc"), Str("http://localhost:8080/admin"),
             Str("http://127.0.0.1/")}
        contents ==
            {Undefined, Number, Str(""), Str("   "), Str("hello world"),
             Str("SELECT * FROM users"), Str("<b></b>"),
             Str(Repeat("a", MaxTextLength + 1))}
    IN  {[Body(Undefined, Undefined, Undefined, NoPhoto) EXCEPT !.json = j] :
            j \in {"invalid", "null"}}
        \cup {Body(m, Str("example.com/news"), Str("hello world"), GoodPhoto) :
                m \in {Undefined, Number, Str(""), Str("audio"), Str("LINK")}}
        \cup {Body(Str("link"), q, Undefined, NoPhoto) : q \in queries}
        \cup {Body(Str("text"), Undefined, c, NoPhoto) : c \in contents}
        \cup {Body(Str("photo"), Undefined, Undefined, ph) : ph \in photos}

\* what the services answer: the text extracted from the page; the text of the
\* transcription and of the synthesis reply ("" when the reply carries none);
\* the payload of a classifier ("null" for a JSON null)
PageOutcomes ==
    {Outcome("ok", 200, c, "OK") :
        c \in {"", "   ", "SELECT * FROM users",
               Repeat("a", MaxTextLength + 1)}}
    \cup {Outcome("http", 404, "", "Not Found"), Outcome("net", 0, "", "")}
RepliesOf(k) ==
    IF k = "transcribe"
    THEN {Outcome("ok", 200, p, "OK") :
            p \in {"", "NO_TEXT_FOUND", "ab", "SELECT * FROM users"}}
         \cup Failures({"Internal Server Error"})
    ELSE IF k = "synth"
    THEN {Outcome("ok", 200, p, "OK") :
            p \in {"", "{\"verdict\": \"fabricated\"}",
                   Fence \o "json\n{\"verdict\": \"fabricated\"}\n" \o Fence,
                   "I cannot help."}}
         \cup Failures(StatusTexts)
    ELSE {Outcome("ok", 200, p, "OK") : p \in {"scores", "null"}}
         \cup Failures({"Internal Server Error"})

ReqInit ==
    /\ rq \in {NewRequest(b) : b \in RequestBodies}
    /\ fc = "off"
    /\ outs = "off"
    /\ uin = "off"
    /\ ures = "off"
    /\ lib = "off"
    /\ reply = "off"
    /\ syn = "off"
    /\ arg = "off"
    /\ ret = "off"
    /\ rqs = "off"
    /\ mem = "off"
    /\ lim = "off"
    /\ rd = "off"

\* the request arrives: POST runs up to the first await of the handler
ReqPost ==
    /\ rq.pc = "start"
    /\ \E L \in LibChoices : rq' = POST(rq, L)
    /\ UNCHANGED <<fc, outs, uin, ures, lib, reply, syn, arg, ret, rqs, mem, lim, rd>>

\* the fetch of the page settles
ReqPageReply ==
    /\ rq.pc = "extract"
    /\ \E o \in PageOutcomes : rq' = AfterExtract(rq, o)
    /\ UNCHANGED <<fc, outs, uin, ures, lib, reply, syn, arg, ret, rqs, mem, lim, rd>>

\* the pending fetch of one of the retried calls settles
ReqCallReply ==
    /\ \E k \in RetriedCalls :
          /\ rq.call[k].pc = "fetching"
          /\ \E o \in RepliesOf(k), guarded \in BOOLEAN :
                rq' = callDetectionAPI(
                         Continue([rq EXCEPT !.call[k] = OnReply(@, o)], k, guarded))
    /\ UNCHANGED <<fc, outs, uin, ures, lib, reply, syn, arg, ret, rqs, mem, lim, rd>>

\* the pending backoff wait of one of the retried calls elapses
ReqWaitDone ==
    /\ \E k \in RetriedCalls :
          /\ rq.call[k].pc = "waiting"
          /\ rq' = [rq EXCEPT !.call[k] = OnWaitDone(@)]
    /\ UNCHANGED <<fc, outs, uin, ures, lib, reply, syn, arg, ret, rqs, mem, lim, rd>>

ReqNext == ReqPost \/ ReqPageReply \/ ReqCallReply \/ ReqWaitDone

SpecReq == ReqInit /\ [][ReqNext]_vars

\* every external call returns or fails and every backoff timer fires: the
\* continuation of a request that is suspended at an await is eventually run
SpecReqLive == SpecReq /\ WF_vars(ReqPageReply \/ ReqCallReply \/ ReqWaitDone)

(***************************************************************************)
(* SpecDetect: one POST to the detection route, which hands the text and   *)
(* labelGroup of the body to detectContent, and the replies of the calls.  *)
(***************************************************************************)
\* the catch block of the detection route
DetectionCatch(r) ==
    IF r.pc # "threw" THEN r
    ELSE IF Includes(r.thrown, "Invalid or missing")
    THEN createErrorResponse(r, r.thrown, 400)
    ELSE createErrorResponse(r, "Internal Server Error", 500)
DetectionPOST(r) ==
    IF r.body.json = "invalid"
    THEN DetectionCatch(Throw(r, "Unexpected end of JSON input"))
    ELSE IF r.body.json = "null"
    THEN DetectionCatch(Throw(r, "Cannot destructure property 'text' of "
                                 \o "'(intermediate value)' as it is null."))
    ELSE DetectionCatch(detectContent([r EXCEPT !.text = r.body.text.s],
                                      r.body.text, r.body.labelGroup))

DetectInit ==
    LET texts == NonStrings \cup {Str(""), Str("   "), Str("hello world"), Str(" a<b ")}
        labelGroups == NonStrings \cup {Str("report"), Array(""), Array("report"),
                                        Array("report,opinion")}
    IN  /\ rq \in {NewRequest([json |-> j, text |-> t, labelGroup |-> g]) :
                     j \in {"object"}, t \in texts, g \in labelGroups}
               \cup {NewRequest([json |-> j, text |-> Undefined, labelGroup |-> Undefined]) :
                       j \in {"invalid", "null"}}
        /\ fc = "off"
        /\ outs = "off"
        /\ uin = "off"
        /\ ures = "off"
        /\ lib = "off"
        /\ reply = "off"
        /\ syn = "off"
        /\ arg = "off"
        /\ ret = "off"
        /\ rqs = "off"
        /\ mem = "off"
        /\ lim = "off"
        /\ rd = "off"

DetectPost ==
    /\ rq.pc = "start"
    /\ rq' = DetectionPOST(rq)
    /\ UNCHANGED <<fc, outs, uin, ures, lib, reply, syn, arg, ret, rqs, mem, lim, rd>>

DetectCallReply ==
    /\ \E k \in ClassifierCalls \cup {"synth"} :
          /\ rq.call[k].pc = "fetching"
          /\ \E o \in RepliesOf(k), guarded \in BOOLEAN :
                rq' = DetectionCatch(
                         Continue([rq EXCEPT !.call[k] = OnReply(@, o)], k, guarded))
    /\ UNCHANGED <<fc, outs, uin, ures, lib, reply, syn, arg, ret, rqs, mem, lim, rd>>

DetectNext == DetectPost \/ DetectCallReply \/ ReqWaitDone

SpecDetect == DetectInit /\ [][DetectNext]_vars

(***************************************************************************)
(* SpecSynth: synthesizeWithLLM after the LLM call returned, applied to a  *)
(* bounded family of reply texts: JSON texts and other texts, each alone,  *)
(* inside a json-tagged fence, inside such a fence with prose around it,   *)
(* and inside an untagged fence; "" is the reply without a text payload.   *)
(***************************************************************************)
SynthInit ==
    LET scalars == {"null", "true", "false", "0", "42", "\"\"", "\"fabricated\"",
                    "\"" \o Fence \o "\""}
        keys == {"\"verdict\"", "\"error\""}
        objects == {"{}", "{\"verdict\":\"authentic\",\"score\":42}"}
                   \cup {"{" \o k \o ":" \o v \o "}" : k \in keys, v \in scalars}
                   \cup {"{ " \o k \o " : " \o v \o " }" : k \in keys, v \in scalars}
                   \cup {"{\n" \o k \o ": " \o v \o "\n}" : k \in keys, v \in scalars}
        others == {"I cannot help.", "{", "{\"verdict\":}", "verdict: authentic",
                   "{\"verdict\" \"authentic\"}", "{}\n" \o Fence \o "\n{}",
                   Fence \o "json\n", "{} {}"}
        texts == scalars \cup objects \cup {" " \o j \o "\n" : j \in scalars} \cup others
        tagged(t) == Fence \o "json\n" \o t \o "\n" \o Fence
    IN  /\ reply \in {""} \cup texts \cup {tagged(t) : t \in texts}
                    \cup {"Here is the verdict:\n" \o tagged(t) \o "\nDone." : t \in texts}
                    \cup {Fence \o "\n" \o t \o "\n" \o Fence : t \in texts}
                    \cup {tagged(t) \o "\n" \o tagged(t) : t \in {"{}", "null"}}
        /\ syn = [called |-> FALSE, result |-> Synthesis("", NoDetails, "", "", "")]
        /\ fc = "off"
        /\ outs = "off"
        /\ uin = "off"
        /\ ures = "off"
        /\ lib = "off"
        /\ rq = "off"
        /\ arg = "off"
        /\ ret = "off"
        /\ rqs = "off"
        /\ mem = "off"
        /\ lim = "off"
        /\ rd = "off"

SynthesizeReturn ==
    /\ ~syn.called
    /\ syn' = [called |-> TRUE, result |-> SynthesisOf(reply)]
    /\ UNCHANGED <<fc, outs, uin, ures, lib, rq, reply, arg, ret, rqs, mem, lim, rd>>

SynthNext == SynthesizeReturn

SpecSynth == SynthInit /\ [][SynthNext]_vars

(***************************************************************************)
(* SpecValid: sanitizeText, called with either flag and called again on    *)
(* its own output, and validatePhoto, each on a bounded family of inputs.  *)
(***************************************************************************)
ValidInit ==
    LET texts ==
            {"", "   ", "hello world", "  hello world \n", "<b>bold</b> text", "a < b",
             "x > y", "a &lt; b <i>x</i>", "&lt;b&gt;x<i></i>", " <p> padded </p> ",
             "<script>alert(1)</script>ok", "a & b <br>", "&quot;<i>q</i>",
             "SELECT * FROM users", "<b>sel</b>ect me", "selection", "\tdata: x",
             "metadata:x", "<i></i> javascript:go", "eval (x)", "<b></b>",
             Repeat("a", MaxTextLength), " " \o Repeat("a", MaxTextLength) \o "\n",
             Repeat("a", MaxTextLength + 1), Repeat("a", MaxTextLength - 6) \o " select",
             "drop " \o Repeat("a", MaxTextLength)}
        sizes == {[n |-> 0], [n |-> -1], [n |-> 1], [n |-> 5000000], [n |-> MaxPhotoSize],
                  [n |-> MaxPhotoSize + 1], [n |-> 11000000]}
        types == {"image/png", "IMAGE/PNG", "image/JPeG", "image/jpg", "image/gif",
                  "image/webp", "image/bmp", "image/svg+xml", "text/plain", ""}
        names == {"scan.png", "scan.php", ""}
        datas == {GoodPhoto.data, "data:image/png;base64,AAAA", ""}
        photos == {NoPhoto, [NoPhoto EXCEPT !.t = "string", !.s = "abc"],
                   [GoodPhoto EXCEPT !.sizeType = "string"]}
                  \cup {Photo(d, m, z.n, t) : d \in datas, m \in names, z \in sizes, t \in types}
    IN  /\ arg \in {[fn |-> "sanitizeText", v |-> x] : x \in NonStrings \cup {Str(t) : t \in texts}}
                  \cup {[fn |-> "validatePhoto", v |-> p] : p \in photos}
        /\ ret = [once |-> [f \in BOOLEAN |-> NotCalled], twice |-> [f \in BOOLEAN |-> NotCalled],
                  photo |-> NotCalled]
        /\ fc = "off"
        /\ outs = "off"
        /\ uin = "off"
        /\ ures = "off"
        /\ lib = "off"
        /\ rq = "off"
        /\ reply = "off"
        /\ syn = "off"
        /\ rqs = "off"
        /\ mem = "off"
        /\ lim = "off"
        /\ rd = "off"

\* sanitizeText(arg, skipInjectionCheck) is called
SanitizeCall ==
    /\ arg.fn = "sanitizeText"
    /\ \E f \in BOOLEAN :
          /\ ret.once[f] = NotCalled
          /\ ret' = [ret EXCEPT !.once[f] = sanitizeText(arg.v, f)]
    /\ UNCHANGED <<fc, outs, uin, ures, lib, rq, reply, syn, arg, rqs, mem, lim, rd>>

\* sanitizeText is called with the same flag on the string it returned
SanitizeAgain ==
    /\ \E f \in BOOLEAN :
          /\ ret.once[f].ok /\ ret.twice[f] = NotCalled
          /\ ret' = [ret EXCEPT !.twice[f] = sanitizeText(Str(ret.once[f].value), f)]
    /\ UNCHANGED <<fc, outs, uin, ures, lib, rq, reply, syn, arg, rqs, mem, lim, rd>>

ValidatePhotoCall ==
    /\ arg.fn = "validatePhoto" /\ ret.photo = NotCalled
    /\ ret' = [ret EXCEPT !.photo = validatePhoto(arg.v)]
    /\ UNCHANGED <<fc, outs, uin, ures, lib, rq, reply, syn, arg, rqs, mem, lim, rd>>

ValidNext == SanitizeCall \/ SanitizeAgain \/ ValidatePhotoCall

SpecValid == ValidInit /\ [][ValidNext]_vars

(***************************************************************************)
(* SpecPair: two POSTs to the analyze endpoint served by one process. The  *)
(* requests interleave at their awaits (a fetch, a backoff wait). `attempt` *)
(* of safeFetchWithRetry lives in a binding; Cell names the binding an      *)
(* invocation uses, and mem holds the value of every binding.              *)
(***************************************************************************)
\* (mutant) `attempt` declared once, at module level
Cell_ModuleLevel(i, k) == <<0, "module">>

\* `let attempt = 0` is inside safeFetchWithRetry: every invocation, that is
\* every call k of every request i, has a binding of its own
Cell(i, k) == <<i, k>>

PairInit ==
    /\ rqs \in [1..2 -> {NewRequest(b) : b \in
                          {x \in RequestBodies :
                             \/ x.mode = Str("text")
                                /\ x.content \in {Str("hello world"), Str("SELECT * FROM users")}
                             \/ x.mode = Str("photo") /\ x.photo = GoodPhoto}}]
    /\ mem = [c \in {Cell(i, k) : i \in 1..2, k \in RetriedCalls} |-> 0]
    /\ fc = "off"
    /\ outs = "off"
    /\ uin = "off"
    /\ ures = "off"
    /\ lib = "off"
    /\ rq = "off"
    /\ reply = "off"
    /\ syn = "off"
    /\ arg = "off"
    /\ ret = "off"
    /\ lim = "off"
    /\ rd = "off"

\* request i as its code sees it when call k resumes: attempt read from its binding
Resumed(i, k) == [rqs[i] EXCEPT !.call[k].attempt = mem[Cell(i, k)]]

\* request i has run up to its next await and is now r: the bindings of the
\* calls it entered hold 0, that of the call k that resumed holds its attempt
Suspend(i, k, r) ==
    /\ rqs' = [rqs EXCEPT ![i] = r]
    /\ mem' = [c \in DOMAIN mem |->
                 IF \E j \in RetriedCalls :
                       c = Cell(i, j) /\ rqs[i].call[j].pc = "idle" /\ r.call[j].pc # "idle"
                 THEN 0
                 ELSE IF k \in RetriedCalls /\ c = Cell(i, k) THEN r.call[k].attempt
                 ELSE mem[c]]

PairPost ==
    /\ \E i \in 1..2 :
          /\ rqs[i].pc = "start"
          /\ \E L \in LibChoices : Suspend(i, "none", POST(rqs[i], L))
    /\ UNCHANGED <<fc, outs, uin, ures, lib, rq, reply, syn, arg, ret, lim, rd>>

\* the replies drawn here: every reply of the transcription call, and the
\* successful replies of the other calls
PairCallReply ==
    /\ \E i \in 1..2, k \in RetriedCalls :
          /\ rqs[i].call[k].pc = "fetching"
          /\ \E o \in {x \in RepliesOf(k) : k = "transcribe" \/ x.kind = "ok"},
                guarded \in BOOLEAN :
                Suspend(i, k, callDetectionAPI(
                                 Continue([Resumed(i, k) EXCEPT !.call[k] = OnReply(@, o)],
                                          k, guarded)))
    /\ UNCHANGED <<fc, outs, uin, ures, lib, rq, reply, syn, arg, ret, lim, rd>>

PairWaitDone ==
    /\ \E i \in 1..2, k \in RetriedCalls :
          /\ rqs[i].call[k].pc = "waiting"
          /\ Suspend(i, k, [Resumed(i, k) EXCEPT !.call[k] = OnWaitDone(@)])
    /\ UNCHANGED <<fc, outs, uin, ures, lib, rq, reply, syn, arg, ret, lim, rd>>

PairNext == PairPost \/ PairCallReply \/ PairWaitDone

SpecPair == PairInit /\ [][PairNext]_vars

(***************************************************************************)
(* SpecLimit: the contact endpoint whose rate limiter is the Map           *)
(* `rateLimit` of the module. lim is a record:                             *)
(*   rateLimit  the Map: for every key an entry, has = FALSE when absent;  *)
(*   now        Date.now(), in milliseconds; ticks counts its advances;    *)
(*   passed     for every key the requests that passed the limiter since   *)
(*              the lastReset of its entry was written (history);          *)
(*   last       the request handled last: its key, the time, the entry and *)
(*              the passed count found, the status answered and whether    *)
(*              the email was sent (history).                              *)
(***************************************************************************)
MAX_REQUESTS_PER_HOUR == 5
\* 60 * 60 * 1000
WINDOW_MS == 3600000

NoEntry == [has |-> FALSE, count |-> 0, lastReset |-> 0]

\* (mutant) the count is compared with > instead of >=
CheckRateLimit_OneMore(e, now) ==
    IF ~e.has THEN [pass |-> TRUE, entry |-> [has |-> TRUE, count |-> 1, lastReset |-> now]]
    ELSE IF now - e.lastReset > WINDOW_MS
    THEN [pass |-> TRUE, entry |-> [has |-> TRUE, count |-> 1, lastReset |-> now]]
    ELSE IF e.count > MAX_REQUESTS_PER_HOUR THEN [pass |-> FALSE, entry |-> e]
    ELSE [pass |-> TRUE, entry |-> [e EXCEPT !.count = @ + 1]]

\* the rate limit check of POST on the entry e of the key, at time now
CheckRateLimit(e, now) ==
    IF ~e.has THEN [pass |-> TRUE, entry |-> [has |-> TRUE, count |-> 1, lastReset |-> now]]
    ELSE IF now - e.lastReset > WINDOW_MS
    THEN [pass |-> TRUE, entry |-> [has |-> TRUE, count |-> 1, lastReset |-> now]]
    ELSE IF e.count >= MAX_REQUESTS_PER_HOUR THEN [pass |-> FALSE, entry |-> e]
    ELSE [pass |-> TRUE, entry |-> [e EXCEPT !.count = @ + 1]]

\* the keys: an x-forwarded-for value, and undefined when the request has
\* neither the header nor an ip
LimitInit ==
    /\ lim = [rateLimit |-> [ip \in {"203.0.113.7", "undefined"} |-> NoEntry],
              now |-> 0, ticks |-> 0,
              passed |-> [ip \in {"203.0.113.7", "undefined"} |-> 0],
              last |-> [ip |-> "", at |-> 0, before |-> NoEntry, passedBefore |-> 0,
                        status |-> 0, emailed |-> FALSE]]
    /\ fc = "off"
    /\ outs = "off"
    /\ uin = "off"
    /\ ures = "off"
    /\ lib = "off"
    /\ rq = "off"
    /\ reply = "off"
    /\ syn = "off"
    /\ arg = "off"
    /\ ret = "off"
    /\ rqs = "off"
    /\ mem = "off"
    /\ rd = "off"

\* time passes
LimitTick ==
    /\ lim.ticks < MaxTicks
    /\ \E d \in {1, WINDOW_MS - 1, WINDOW_MS} :
          lim' = [lim EXCEPT !.now = @ + d, !.ticks = @ + 1]
    /\ UNCHANGED <<fc, outs, uin, ures, lib, rq, reply, syn, arg, ret, rqs, mem, rd>>

\* POST: the rate limit check, then, for a request that passed, the body is
\* read and validated and the email is sent; nothing after the check reads or
\* writes rateLimit
LimitPost ==
    /\ \E ip \in DOMAIN lim.rateLimit,
          body \in {"valid", "missing fields", "invalid email", "not JSON"},
          sent \in BOOLEAN :
          lim' = [lim EXCEPT
                    !.rateLimit[ip] = CheckRateLimit(@, lim.now).entry,
                    !.passed[ip] =
                        (IF lim.rateLimit[ip].has
                            /\ CheckRateLimit(lim.rateLimit[ip], lim.now).entry.lastReset
                               = lim.rateLimit[ip].lastReset
                         THEN @ ELSE 0)
                        + (IF CheckRateLimit(lim.rateLimit[ip], lim.now).pass THEN 1 ELSE 0),
                    !.last =
                        [ip |-> ip, at |-> lim.now, before |-> lim.rateLimit[ip],
                         passedBefore |-> lim.passed[ip],
                         status |-> IF ~CheckRateLimit(lim.rateLimit[ip], lim.now).pass THEN 429
                                    ELSE IF body \in {"missing fields", "invalid email"} THEN 400
                                    ELSE IF body = "not JSON" \/ ~sent THEN 500
                                    ELSE 200,
                         emailed |-> /\ CheckRateLimit(lim.rateLimit[ip], lim.now).pass
                                     /\ body = "valid" /\ sent]]
    /\ UNCHANGED <<fc, outs, uin, ures, lib, rq, reply, syn, arg, ret, rqs, mem, rd>>

LimitNext == LimitTick \/ LimitPost

SpecLimit == LimitInit /\ [][LimitNext]_vars

(***************************************************************************)
(* SpecRedis: the contact endpoint whose rate limiter is a Redis counter.  *)
(* rd is a record:                                                         *)
(*   store  for every key its value in Redis: count = 0 when the key does  *)
(*          not exist, ttl = 0 when it has no expiry;                      *)
(*   reqs   two request slots, so that two POSTs can be in flight at once: *)
(*          pc is "idle", "incr" (awaiting redis.incr), "expire" (awaiting *)
(*          redis.expire) or "done";                                       *)
(*   n      the POSTs received so far.                                     *)
(* A Redis command takes effect when its reply is delivered; a command can *)
(* also reject (the REST call fails), which the catch of POST answers 500. *)
(* The limit of this route (route.js line 21) is MAX_REQUESTS_PER_HOUR too.*)
(***************************************************************************)
\* 60 * 60
WINDOW_SECONDS == 3600

IdleRequest == [pc |-> "idle", ip |-> "", requestCount |-> 0, status |-> 0, emailed |-> FALSE]

\* POST from the rate limit comparison on, for a request counted requestCount
AfterLimit(q, requestCount, body, sent) ==
    [q EXCEPT !.pc = "done", !.requestCount = requestCount,
              !.status = IF requestCount > MAX_REQUESTS_PER_HOUR THEN 429
                         ELSE IF body \in {"missing fields", "invalid email"} THEN 400
                         ELSE IF body = "not JSON" \/ ~sent THEN 500
                         ELSE 200,
              !.emailed = /\ requestCount <= MAX_REQUESTS_PER_HOUR
                          /\ body = "valid" /\ sent]

\* the catch of POST
ContactCatch(q) == [q EXCEPT !.pc = "done", !.status = 500, !.emailed = FALSE]

RedisInit ==
    /\ rd = [store |-> [ip \in {"203.0.113.7", "unknown"} |-> [count |-> 0, ttl |-> 0]],
             reqs |-> [i \in 1..2 |-> IdleRequest],
             n |-> 0]
    /\ fc = "off"
    /\ outs = "off"
    /\ uin = "off"
    /\ ures = "off"
    /\ lib = "off"
    /\ rq = "off"
    /\ reply = "off"
    /\ syn = "off"
    /\ arg = "off"
    /\ ret = "off"
    /\ rqs = "off"
    /\ mem = "off"
    /\ lim = "off"

\* POST up to its first await: redis.incr(key) is called
RedisPost ==
    /\ rd.n < MaxContacts
    /\ \E i \in 1..2, ip \in DOMAIN rd.store :
          /\ rd.reqs[i].pc \in {"idle", "done"}
          /\ rd' = [rd EXCEPT !.reqs[i] = [IdleRequest EXCEPT !.pc = "incr", !.ip = ip],
                              !.n = @ + 1]
    /\ UNCHANGED <<fc, outs, uin, ures, lib, rq, reply, syn, arg, ret, rqs, mem, lim>>

\* redis.incr settles: INCR creates the key at 1 or adds 1 and keeps its
\* expiry; a first request goes on to call redis.expire, any other request
\* runs to its response
RedisIncrReply ==
    /\ \E i \in 1..2, ok \in BOOLEAN,
          body \in {"valid", "missing fields", "invalid email", "not JSON"},
          sent \in BOOLEAN :
          /\ rd.reqs[i].pc = "incr"
          /\ rd' = IF ~ok THEN [rd EXCEPT !.reqs[i] = ContactCatch(@)]
                   ELSE [rd EXCEPT
                           !.store[rd.reqs[i].ip].count = @ + 1,
                           !.reqs[i] =
                               IF rd.store[rd.reqs[i].ip].count + 1 = 1
                               THEN [@ EXCEPT !.pc = "expire", !.requestCount = 1]
                               ELSE AfterLimit(@, rd.store[rd.reqs[i].ip].count + 1,
                                               body, sent)]
    /\ UNCHANGED <<fc, outs, uin, ures, lib, rq, reply, syn, arg, ret, rqs, mem, lim>>

\* redis.expire settles: EXPIRE sets the expiry of an existing key
RedisExpireReply ==
    /\ \E i \in 1..2, ok \in BOOLEAN,
          body \in {"valid", "missing fields", "invalid email", "not JSON"},
          sent \in BOOLEAN :
          /\ rd.reqs[i].pc = "expire"
          /\ rd' = IF ~ok THEN [rd EXCEPT !.reqs[i] = ContactCatch(@)]
                   ELSE [rd EXCEPT
                           !.store[rd.reqs[i].ip].ttl =
                               IF rd.store[rd.reqs[i].ip].count > 0
                               THEN WINDOW_SECONDS ELSE @,
                           !.reqs[i] = AfterLimit(@, rd.reqs[i].requestCount, body, sent)]
    /\ UNCHANGED <<fc, outs, uin, ures, lib, rq, reply, syn, arg, ret, rqs, mem, lim>>

\* the window of a key with an expiry elapses: Redis deletes the key
RedisKeyExpires ==
    /\ \E ip \in DOMAIN rd.store :
          /\ rd.store[ip].ttl > 0
          /\ rd' = [rd EXCEPT !.store[ip] = [count |-> 0, ttl |-> 0]]
    /\ UNCHANGED <<fc, outs, uin, ures, lib, rq, reply, syn, arg, ret, rqs, mem, lim>>

RedisNext == RedisPost \/ RedisIncrReply \/ RedisExpireReply \/ RedisKeyExpires

SpecRedis == RedisInit /\ [][RedisNext]_vars

(***************************************************************************)
(* Claims about the request as a whole.                                    *)
(***************************************************************************)
Done == rq.pc = "done"
FullSchedule == <<BackoffDelay(0), BackoffDelay(1)>>

\* C3 (as stated): every external call of an analyze request - the extraction
\* page fetch, the three classification calls, the transcription call and the
\* synthesis call - goes through the retrying fetcher: a call that ends in
\* failure has been issued the default three times with the backoff waits
\* between the attempts.
C3_EveryCallRetried ==
    \A k \in CallNames :
        rq.call[k].pc = "raised" =>
            rq.call[k].calls = DefaultRetries /\ rq.call[k].waits = FullSchedule

\* C3 (amended): the three classification calls, the transcription call and the
\* synthesis call go through the retrying fetcher with the default three
\* attempts: one that ends in failure was issued three times with waits of 1000
\* and 2000 ms, one that succeeds at its n-th attempt was preceded by the first
\* n - 1 waits of the schedule. The extraction page fetch is a single bare
\* fetch: it is issued at most once and never waited for again, so its failure
\* ends the request after one call.
C3_RetriedExceptExtraction ==
    /\ \A k \in RetriedCalls :
          /\ rq.call[k].calls <= DefaultRetries
          /\ rq.call[k].pc = "raised" =>
                rq.call[k].calls = DefaultRetries /\ rq.call[k].waits = FullSchedule
          /\ rq.call[k].pc = "returned" =>
                rq.call[k].waits = SubSeq(FullSchedule, 1, rq.call[k].calls - 1)
    /\ rq.call["extract"].calls <= 1
    /\ rq.call["extract"].waits = <<>>
    /\ rq.call["extract"].pc = "raised" => Done /\ rq.resp.status = 500
C3_Witness ==
    /\ Done
    /\ rq.call["extract"].pc = "returned" /\ rq.call["extract"].calls = 1
    /\ rq.call["sarcasm"].pc = "raised"
    /\ rq.call["zeroShot"].pc = "returned" /\ rq.call["zeroShot"].calls = 2

\* the rules of the Input Validator the claim names
ValidationKinds ==
    {"MissingInput", "InvalidFormat", "DisallowedScheme", "TooLong", "SuspiciousPattern",
     "PrivateNetworkAccess", "NotString", "TooLarge", "PotentialInjection",
     "PhotoIncomplete", "PhotoTooLarge", "PhotoSize", "UnsupportedFileType", "PhotoName",
     "PhotoNameLength", "PhotoFormat", "PhotoCorrupted"}

\* C8: a request that one of the rules of validateURL, sanitizeText or
\* validatePhoto rejected is answered with 400 and the message of that rule,
\* never with 500 or the generic message.
C8_ValidationFailuresAnswered400 ==
    (Done /\ rq.origin \in ValidationKinds) =>
        rq.resp.status = 400 /\ rq.resp.error = rq.thrown

\* where a failure that is no validation failure is raised
InternalOrigins == {"extract", "transcribe", "detection", "TypeError"}

\* C9: a failure that is not a validation failure (an external call that failed
\* after all its retries, a failed extraction fetch, an exception inside
\* detection) is answered with 500 and the generic message, and the message of
\* an error response never holds the text of the error of a failed call.
C9_InternalFailuresGeneric ==
    Done =>
        /\ rq.origin \in InternalOrigins =>
              rq.resp.status = 500 /\ rq.resp.error = GenericMessage
        /\ rq.resp.status >= 400 =>
              \A k \in CallNames :
                  rq.call[k].pc = "raised" =>
                      ~Includes(rq.resp.error, rq.call[k].result.msg)

\* C10: a request that passed validation and yielded non-empty text to analyze
\* is answered with 200 and the combined result, whatever the outcomes of the
\* classification calls and of the synthesis call.
C10_AnalysisAlwaysAnswered200 ==
    (Done /\ rq.text # "") => rq.resp.status = 200

Started(c) == c.pc # "idle"

\* C11: detectContent joins its three classification calls with a settle-all
\* join: the three are started together, each runs to its own completion
\* whatever happened to the others (a call is pending or settled, never
\* dropped), the synthesis call is not started before all three have settled,
\* and no response is sent while one of them is pending.
C11_SettleAllJoin ==
    /\ (\E k \in ClassifierCalls : Started(rq.call[k])) =>
          \A k \in ClassifierCalls : Started(rq.call[k])
    /\ Started(rq.call["synth"]) => \A k \in ClassifierCalls : Settled(rq.call[k])
    /\ (Done /\ rq.text # "") =>
          \A k \in ClassifierCalls :
              /\ Settled(rq.call[k])
              /\ rq.call[k].pc = "raised" => rq.call[k].calls = DefaultRetries
C11_Witness ==
    /\ rq.call["sarcasm"].pc = "raised"
    /\ rq.call["zeroShot"].pc = "waiting" /\ rq.call["zeroShot"].attempt = 1
    /\ rq.call["politicalBias"].pc = "fetching"
    /\ ~Started(rq.call["synth"]) /\ ~Done

\* C12: the synthesis stage is invoked if and only if all three classification
\* calls succeeded, whatever JSON payload each of them returned: once the three
\* have settled, the synthesis call has been started exactly when each of the
\* three got a 2xx reply with a JSON body.
C12_SynthesisIffAllSucceeded ==
    (\A k \in ClassifierCalls : Settled(rq.call[k])) =>
        (Started(rq.call["synth"]) <=>
            \A k \in ClassifierCalls : rq.call[k].pc = "returned")

\* the analysis field of a call in the combined result of the response
AnalysisField(k) ==
    CASE k = "sarcasm"       -> rq.resp.body.sarcasmAnalysis
      [] k = "zeroShot"      -> rq.resp.body.zeroShotAnalysis
      [] k = "politicalBias" -> rq.resp.body.politicalBiasAnalysis
SynthesisSkipped ==
    /\ Done /\ rq.resp.status = 200
    /\ rq.resp.body.synthesis.error = "One or more detection models failed."

\* C13: when synthesis was skipped the combined result still has the payload of
\* every call that succeeded in its analysis field and an empty field for every
\* call that failed, and the details of the synthesis error carry a reason for
\* exactly the calls that failed: none for a call that succeeded, and at least
\* one in all.
C13_DetailsNameTheFailedCalls ==
    SynthesisSkipped =>
        /\ \A k \in ClassifierCalls :
              IF Fulfilled(rq, k)
              THEN /\ AnalysisField(k) = rq.call[k].result.payload
                   /\ rq.resp.body.synthesis.details[k] = "undefined"
              ELSE /\ AnalysisField(k) \in {"null", "undefined"}
                   /\ rq.resp.body.synthesis.details[k] # "undefined"
        /\ \E k \in ClassifierCalls : rq.resp.body.synthesis.details[k] # "undefined"

NetworkCalls == {k \in CallNames : rq.call[k].calls > 0}

\* C14: no external call is made for a request before its input passed the
\* Input Validator: the page is fetched only after validateURL accepted the
\* query, the transcription call is made only after validatePhoto accepted the
\* photo, in text mode the classification calls are made only after sanitizeText
\* with the injection check accepted the content, and a request whose input
\* the validator rejected makes no call at all (the only rejection that follows
\* a call is that of the text the call itself returned).
C14_NoCallBeforeValidation ==
    /\ rq.call["extract"].calls > 0 =>
          /\ rq.body.mode = Str("link")
          /\ \E L \in LibChoices : validateURL(rq.body.query, L).ok
    /\ rq.call["transcribe"].calls > 0 =>
          rq.body.mode = Str("photo") /\ validatePhoto(rq.body.photo).ok
    /\ (rq.body.mode = Str("text") /\ NetworkCalls # {}) =>
          /\ sanitizeText(rq.body.content, FALSE).ok
          /\ rq.text = sanitizeText(rq.body.content, FALSE).value
    /\ rq.origin \in ValidationKinds \cup {"PhotoRequired"} =>
          \/ NetworkCalls = {}
          \/ \E k \in {"extract", "transcribe"} :
                /\ NetworkCalls = {k} /\ rq.call[k].pc = "returned"
                /\ ~sanitizeText(Str(rq.call[k].result.payload), TRUE).ok
C14_Witness ==
    /\ rq.body.mode = Str("link") /\ rq.call["extract"].pc = "returned"
    /\ rq.call["sarcasm"].calls > 0

\* C15: the injection check follows the provenance of the text. Content typed
\* by the user (text mode) that matches an injection pattern is rejected with
\* PotentialInjection and never reaches detectContent; text that comes from an
\* extracted page or a transcribed photo is handed to detectContent as
\* sanitizeText leaves it with the check skipped (markup neutralized, trimmed),
\* also when it matches an injection pattern.
C15_InjectionCheckByProvenance ==
    /\ ( /\ rq.body.mode = Str("text") /\ rq.body.content.t = "string"
         /\ sanitizeText(rq.body.content, TRUE).ok
         /\ injectionPatterns(DOMPurifySanitize(rq.body.content.s))
         /\ rq.pc # "start" ) =>
            /\ Done /\ rq.origin = "PotentialInjection" /\ rq.resp.status = 400
            /\ rq.text = "" /\ NetworkCalls = {}
    /\ \A k \in {"extract", "transcribe"} :
          ( /\ rq.call[k].pc = "returned"
            /\ Trim(rq.call[k].result.payload) # "NO_TEXT_FOUND"
            /\ sanitizeText(Str(rq.call[k].result.payload), TRUE).ok
            /\ Len(sanitizeText(Str(rq.call[k].result.payload), TRUE).value) >= 3 ) =>
               /\ rq.text = Trim(DOMPurifySanitize(rq.call[k].result.payload))
               /\ \A c \in ClassifierCalls : Started(rq.call[c])
C15_Witness ==
    /\ rq.body.mode = Str("link")
    /\ rq.call["extract"].result.payload = "SELECT * FROM users"
    /\ injectionPatterns(rq.text) /\ rq.text = "SELECT * FROM users"
    /\ Done /\ rq.resp.status = 200

NothingStarted == \A k \in ClassifierCalls \cup {"synth"} : ~Started(rq.call[k])

\* C16: when there is nothing to analyze the request ends with a 400 and
\* detectContent is never invoked: in link mode when the extracted content is
\* empty (or empty once sanitized), in photo mode when the transcription is
\* NO_TEXT_FOUND or shorter than 3 characters once sanitized.
C16_NothingToAnalyze ==
    /\ ( /\ rq.call["extract"].pc = "returned"
         /\ Trim(DOMPurifySanitize(rq.call["extract"].result.payload)) = "" ) =>
            Done /\ rq.resp.status = 400 /\ rq.text = "" /\ NothingStarted
    /\ ( /\ rq.call["transcribe"].pc = "returned"
         /\ rq.call["transcribe"].result.payload # ""
         /\ \/ Trim(rq.call["transcribe"].result.payload) = "NO_TEXT_FOUND"
            \/ Len(Trim(DOMPurifySanitize(rq.call["transcribe"].result.payload))) < 3 ) =>
            /\ Done /\ rq.resp.status = 400 /\ rq.text = "" /\ NothingStarted
            /\ rq.resp.error = "No discernible text was found in the provided image."
C16_Witness ==
    /\ rq.call["transcribe"].pc = "returned" /\ rq.call["transcribe"].result.payload = "ab"
    /\ Done /\ rq.resp.status = 400

\* the request carries no usable mode: the body is not JSON, or its mode is
\* missing, not a string, or none of link, text, photo
ModeUnusable ==
    \/ rq.body.json = "invalid"
    \/ Falsy(rq.body.mode) \/ rq.body.mode.t # "string"
    \/ rq.body.mode.s \notin {"link", "text", "photo"}
NoHandlerRan == NetworkCalls = {} /\ rq.text = "" /\ rq.origin \in {"", "TypeError"}

\* C17: a request whose mode is missing, not a string or not one of link,
\* text, photo, and a request whose body is not valid JSON, is answered 400
\* and no validator, extractor, transcription, classification or synthesis
\* step runs for it.
C17_UnusableModeAnswered400 ==
    (ModeUnusable /\ rq.pc # "start") =>
        Done /\ rq.resp.status = 400 /\ NoHandlerRan

\* what holds of the route: no handler runs for such a request, and the answer
\* is 400 unless the body is the JSON value null
C17_NoHandlerForUnusableMode ==
    (ModeUnusable /\ rq.pc # "start") =>
        /\ Done /\ NoHandlerRan
        /\ rq.resp.status = IF rq.body.json = "null" THEN 500 ELSE 400

\* the text or the label group handed to detectContent is unusable
InvalidDetectInput ==
    LET text == rq.body.text
        labelGroup == rq.body.labelGroup
    IN  \/ text.t # "string" \/ Trim(text.s) = ""
        \/ labelGroup.t # "array" \/ labelGroup.s = ""

\* C18: detectContent raises an "Invalid or missing ..." error before any
\* network call when the text is not a string or empty after trimming, or
\* the label group is not an array or is empty: no classification call and no
\* synthesis call is issued; with usable inputs the three classification
\* calls are issued.
C18_InvalidInputBeforeAnyCall ==
    (rq.body.json = "object" /\ rq.pc # "start") =>
        IF InvalidDetectInput
        THEN /\ rq.thrown \in {"Invalid or missing 'text'.", "Invalid or missing 'labelGroup'."}
             /\ NetworkCalls = {} /\ NothingStarted
             /\ Done /\ rq.resp.status = 400 /\ rq.resp.error = rq.thrown
        ELSE /\ \A k \in ClassifierCalls : rq.call[k].calls > 0
             /\ rq.thrown \notin {"Invalid or missing 'text'.", "Invalid or missing 'labelGroup'."}
C18_Witness ==
    /\ rq.body.json = "object" /\ rq.body.text = Str("hello world")
    /\ rq.body.labelGroup = Array("")
    /\ Done /\ rq.thrown = "Invalid or missing 'labelGroup'." /\ NetworkCalls = {}

\* the reply is exactly a json-tagged fence around some text, and that text
Tagged == Len(reply) >= 12 /\ StartsWith(reply, Fence \o "json\n")
          /\ EndsWith(reply, "\n" \o Fence)
Inside == SubSeq(reply, 9, Len(reply) - 4)
Unavailable(raw) == Synthesis("Synthesis unavailable", NoDetails, "", raw, "")

\* C19: a JSON text J inside a json-tagged fence is parsed to the same result
\* as J alone, and a reply without a fence is parsed as raw text.
C19_FencedAsUnfenced ==
    syn.called =>
        /\ (Tagged /\ JSONParse(Inside).ok) =>
              /\ syn.result = SynthesisOf(Inside)
              /\ syn.result = Synthesis("", NoDetails, "", "", JSONParse(Inside).value)
        /\ (reply # "" /\ ~Includes(reply, Fence)) =>
              syn.result = IF JSONParse(reply).ok
                           THEN Synthesis("", NoDetails, "", "", JSONParse(reply).value)
                           ELSE Unavailable(reply)
C19_Witness ==
    /\ syn.called
    /\ reply = Fence \o "json\n{\n\"verdict\": \"fabricated\"\n}\n" \o Fence
    /\ syn.result.value = "{\"verdict\":\"fabricated\"}"

\* C20: on a malformed reply synthesizeWithLLM returns a value: exactly
\* {error: "Synthesis unavailable"} when the reply has no text payload, and
\* {error: "Synthesis unavailable", rawResponse: t}, t the complete reply text
\* with any fence, when the extracted string does not parse as JSON.
C20_MalformedReplyReported ==
    syn.called =>
        /\ reply = "" => syn.result = Unavailable("")
        /\ syn.result.error \in {"", "Synthesis unavailable"}
        /\ (reply # "" /\ syn.result.error # "") => syn.result = Unavailable(reply)
        /\ syn.result.error = "" => syn.result.value # "" /\ syn.result.rawResponse = ""
        /\ (Tagged /\ ~JSONParse(Inside).ok) => syn.result = Unavailable(reply)
        /\ (reply # "" /\ ~Includes(reply, Fence) /\ ~JSONParse(reply).ok) =>
              syn.result = Unavailable(reply)
C20_Witness ==
    /\ syn.called
    /\ reply = Fence \o "json\nI cannot help.\n" \o Fence
    /\ syn.result.error = "Synthesis unavailable" /\ syn.result.rawResponse = reply

\* C21: sanitizeText is idempotent for a fixed injection-check flag: called on
\* the string it returned, with the same flag, it succeeds and returns that
\* string.
C21_SanitizeIdempotent ==
    \A f \in BOOLEAN :
        ret.twice[f] # NotCalled =>
            ret.twice[f].ok /\ ret.twice[f].value = ret.once[f].value
C21_Witness ==
    /\ arg.v = Str("a &lt; b <i>x</i>")
    /\ ret.once[TRUE].value = "a &lt; b x" /\ ret.twice[TRUE].ok

\* the photo handed to validatePhoto is an object with data, name, a numeric
\* size and a type
PhotoComplete ==
    /\ arg.v.t = "object" /\ arg.v.sizeType = "number"
    /\ arg.v.data # "" /\ arg.v.name # "" /\ arg.v.type # ""

\* C22: validatePhoto accepts a photo only if its size is a number in
\* (0, 10 MiB] and its type is, whatever its case, one of the six image
\* types; size 11,000,000 is rejected as too large, a size <= 0 is rejected,
\* and a 5,000,000-byte image/png photo with a harmless name and a base64 data
\* URI of 100 payload characters is accepted and returned as it was given.
C22_PhotoSizeAndType ==
    (arg.fn = "validatePhoto" /\ ret.photo # NotCalled) =>
        /\ ret.photo.ok =>
              /\ PhotoComplete
              /\ arg.v.size > 0 /\ arg.v.size <= 10 * 1024 * 1024
              /\ \E t \in allowedTypes : Len(t) = Len(arg.v.type) /\ IncludesCI(arg.v.type, t)
              /\ ret.photo.value = arg.v
        /\ (PhotoComplete /\ arg.v.size = 11000000) => ret.photo.err = "PhotoTooLarge"
        /\ (PhotoComplete /\ arg.v.size <= 0) => ret.photo.err = "PhotoSize"
        /\ ( /\ PhotoComplete /\ arg.v.size \in {1, 5000000, 10 * 1024 * 1024}
             /\ arg.v.type \in {"image/png", "IMAGE/PNG", "image/JPeG", "image/jpg",
                                "image/gif", "image/webp", "image/bmp"}
             /\ arg.v.name = "scan.png" /\ arg.v.data = GoodPhoto.data ) =>
              ret.photo.ok /\ ret.photo.value = arg.v
C22_Witness ==
    /\ arg.fn = "validatePhoto" /\ PhotoComplete
    /\ arg.v.size = 5000000 /\ arg.v.type = "image/png"
    /\ ret.photo.ok /\ ret.photo.value = arg.v

\* the string whose length counts: the trimmed input, https:// prepended when
\* it starts with neither http:// nor https://
Counted == IF HasSchemePrefix(Trim(uin.s)) THEN Trim(uin.s) ELSE "https://" \o Trim(uin.s)

\* C23: validateURL rejects every input whose URL string is longer than 2048
\* characters, whatever its host, scheme and content, and accepts no string
\* longer than that; the length is that of the trimmed string after https://
\* was prepended to an input without scheme.
C23_LongURLsRejected ==
    (ures # NotCalled /\ uin.t = "string" /\ Trim(uin.s) # "") =>
        /\ Len(Counted) > 2048 =>
              /\ ~ures.ok
              /\ ures.err \in {"TooLong", "InvalidFormat"}
              /\ ures.err = "InvalidFormat" => ~ParseURL(Counted).ok
        /\ ures.ok => Len(ures.value) <= 2048
        /\ (Len(Counted) <= 2048 /\ Len(Counted) >= 2047) =>
              ures.err # "TooLong" /\ (Includes(Counted, "//example.com/a") => ures.ok)
C23_Witness ==
    /\ ures.err = "TooLong" /\ Len(uin.s) = 2048 - Len("https://") + 1
    /\ StartsWith(uin.s, "example.com/")
C23_WitnessPadded ==
    /\ ures.ok /\ Len(uin.s) > 2048 /\ Len(ures.value) = 2048

\* r2 is what request r becomes by one step of a request that runs alone
SoloStep(r, r2) ==
    \/ r.pc = "start" /\ \E L \in LibChoices : r2 = POST(r, L)
    \/ \E k \in RetriedCalls :
          /\ r.call[k].pc = "fetching"
          /\ \E o \in RepliesOf(k), guarded \in BOOLEAN :
                r2 = callDetectionAPI(Continue([r EXCEPT !.call[k] = OnReply(@, o)],
                                               k, guarded))
    \/ \E k \in RetriedCalls :
          r.call[k].pc = "waiting" /\ r2 = [r EXCEPT !.call[k] = OnWaitDone(@)]

\* C24: concurrent analyze requests share no mutable state: under any
\* interleaving of two requests at their awaits, every step of one request is
\* the step it would take alone with the same reply and leaves the other
\* request as it was, so each response is the one of the request run alone.
C24_RequestsIsolated ==
    [][\A i \in 1..2 :
          rqs'[i] # rqs[i] =>
              /\ SoloStep(rqs[i], rqs'[i])
              /\ \A j \in 1..2 \ {i} : rqs'[j] = rqs[j]]_vars
C24_Witness ==
    /\ rqs[1].call["transcribe"].attempt = 2 /\ rqs[1].call["transcribe"].pc = "fetching"
    /\ rqs[2].call["transcribe"].attempt = 1 /\ rqs[2].call["transcribe"].pc = "waiting"

\* C25: safeFetchWithRetry issues at most `retries` calls and, for every value
\* of retries (0 and negative values included) and every sequence of outcomes,
\* ends either by returning the parsed JSON of a 2xx response or by raising:
\* it never returns undefined.
C25_NeverReturnsUndefined ==
    /\ fc.calls <= (IF fc.retries > 0 THEN fc.retries ELSE 0)
    /\ fc.pc = "returned" =>
          /\ fc.result.type = "value"
          /\ Len(outs) >= 1 /\ outs[Len(outs)].kind = "ok"
          /\ fc.result.payload = outs[Len(outs)].payload

\* what holds of it: the same, for retries >= 1
C25_NeverUndefinedWhenPositive ==
    fc.retries >= 1 => C25_NeverReturnsUndefined

\* the 2xx outcomes whose body was not JSON
BadJson == {i \in 1..Len(outs) : outs[i].kind = "badjson"}

\* C26: a 2xx response whose body does not parse as JSON is a failed attempt
\* like a transport failure: when attempts remain it is followed by the
\* backoff wait of its attempt and by a retry, on the final attempt its error
\* is raised, and it uses up exactly one attempt.
C26_UnparsableBodyIsAFailedAttempt ==
    (fc.retries >= 1) =>
        /\ \A i \in BadJson :
              /\ i < fc.retries =>
                    /\ Len(fc.waits) >= i /\ fc.waits[i] = Pow2(i - 1) * 1000
                    /\ fc.attempt \in {i - 1, i} \/ Len(outs) > i
                    /\ (Len(outs) = i) =>
                          \/ fc.pc = "waiting" /\ fc.attempt = i - 1 /\ fc.calls = i
                          \/ fc.pc = "fetching" /\ fc.attempt = i /\ fc.calls = i + 1
              /\ i = fc.retries =>
                    /\ fc.pc = "raised" /\ fc.calls = fc.retries
                    /\ fc.result = [type |-> "error", payload |-> "",
                                    msg |-> "Unexpected end of JSON input"]
                    /\ Len(fc.waits) = fc.retries - 1
              /\ i <= fc.retries
        /\ fc.calls = Len(outs) + (IF fc.pc = "fetching" THEN 1 ELSE 0)
C26_Witness ==
    /\ fc.retries = 3 /\ Len(outs) = 3
    /\ outs[1].kind = "badjson" /\ outs[2].kind = "net" /\ outs[3].kind = "badjson"
    /\ fc.pc = "raised" /\ fc.waits = <<1000, 2000>>

\* C27: skipping the injection check only removes the PotentialInjection
\* rejection: when the checked call succeeds the unchecked call succeeds with
\* the same output, when the unchecked call fails (input not a string, or more
\* than 50,000 characters after trimming) the checked call fails too, and every
\* output is trimmed and at most 50,000 characters long.
C27_SkipOnlyRemovesInjectionRejection ==
    /\ (ret.once[FALSE] # NotCalled /\ ret.once[TRUE] # NotCalled) =>
          /\ ret.once[FALSE].ok => ret.once[TRUE] = ret.once[FALSE]
          /\ ~ret.once[TRUE].ok =>
                /\ ret.once[FALSE] = ret.once[TRUE]
                /\ ret.once[TRUE].err = (IF arg.v.t # "string" THEN "NotString" ELSE "TooLarge")
          /\ (ret.once[TRUE].ok /\ ~ret.once[FALSE].ok) =>
                ret.once[FALSE].err = "PotentialInjection"
    /\ \A f \in BOOLEAN :
          ret.once[f].ok =>
              /\ Trim(ret.once[f].value) = ret.once[f].value
              /\ Len(ret.once[f].value) <= 50000
C27_Witness ==
    /\ arg.v = Str("  hello world \n")
    /\ ret.once[FALSE].ok /\ ret.once[TRUE].ok /\ ret.once[TRUE].value = "hello world"
C27_WitnessRejected ==
    /\ arg.v = Str("SELECT * FROM users")
    /\ ret.once[FALSE].err = "PotentialInjection" /\ ret.once[TRUE].value = "SELECT * FROM users"

\* C28: provided every external call returns or fails, every POST to the
\* analyze endpoint ends with exactly one response, of status 200, 400 or 500;
\* no exception leaves the handler, and a 200 is answered only once
\* detectContent has returned its combined result.
C28_EveryRequestAnswered ==
    /\ (rq.pc # "start") ~> Done
    /\ [](rq.pc # "threw")
    /\ [](IF Done THEN rq.resp.status \in {200, 400, 500} ELSE rq.resp.status = 0)
    /\ []((Done /\ rq.resp.status = 200) =>
            /\ rq.text # "" /\ \A k \in ClassifierCalls : Settled(rq.call[k])
            /\ \/ Settled(rq.call["synth"])
               \/ ~Started(rq.call["synth"]) /\ rq.resp.body.synthesis.error
                                                  = "One or more detection models failed.")
    /\ [][Done => rq' = rq]_vars
C28_Witness ==
    /\ Done /\ rq.resp.status = 200 /\ rq.call["synth"].pc = "raised"
    /\ rq.resp.body.synthesis.error = "Synthesis failed"

\* C29: in-memory rate limiter. The stored count of every key stays within
\* 1..5; within one window (WINDOW_MS from lastReset) at most 5 requests of the
\* key pass, every further request in the window is answered 429, leaves the
\* entry as it was and sends no email; the first request after the window
\* resets the entry to count 1 and passes.
C29_AtMostFivePerWindow ==
    /\ \A ip \in DOMAIN lim.rateLimit :
          /\ lim.rateLimit[ip].has => lim.rateLimit[ip].count \in 1..5
          /\ lim.passed[ip] <= 5
          /\ lim.rateLimit[ip].has <=> lim.passed[ip] >= 1
    /\ lim.last.ip # "" =>
          LET l == lim.last
              after == lim.rateLimit[l.ip]
              inWindow == l.before.has /\ l.at - l.before.lastReset <= 60 * 60 * 1000
          IN  /\ l.status = 429 <=> (inWindow /\ l.passedBefore >= 5)
              /\ l.status = 429 => after = l.before /\ ~l.emailed
              /\ (l.before.has /\ ~inWindow) =>
                    /\ after = [has |-> TRUE, count |-> 1, lastReset |-> l.at]
                    /\ l.status # 429
              /\ (inWindow /\ l.status # 429) =>
                    after = [l.before EXCEPT !.count = l.before.count + 1]
              /\ ~l.before.has => after = [has |-> TRUE, count |-> 1, lastReset |-> l.at]
C29_Witness ==
    /\ lim.last.status = 429 /\ lim.last.before.count = 5
    /\ lim.last.at - lim.last.before.lastReset = 60 * 60 * 1000
C29_WitnessReset ==
    /\ lim.last.before.count = 5 /\ lim.last.emailed
    /\ lim.rateLimit[lim.last.ip].count = 1 /\ lim.last.at > 60 * 60 * 1000

\* C30: Redis rate limiter. Every key that has been incremented has an expiry
\* of WINDOW_SECONDS as soon as no request of its IP is between its increment
\* and its expire call, whatever the interleaving and whichever step failed.
C30_IncrementedKeyHasExpiry ==
    \A ip \in DOMAIN rd.store :
        (/\ rd.store[ip].count > 0
         /\ \A i \in 1..2 : ~(rd.reqs[i].ip = ip /\ rd.reqs[i].pc = "expire"))
        => rd.store[ip].ttl = 60 * 60

====
